---------------------------- MODULE Spec2Model ----------------------------
(***************************************************************************)
(* DisasterWatch Italy (RE-ACT Mediterranean): the Dashboard's alert       *)
(* aggregation (frontend/src/components/Dashboard.jsx), the application's  *)
(* polling of the dashboard summary (App, quoted in memory/PRD.md) and the *)
(* proximity search behind /hospitals/nearby.                              *)
(*                                                                         *)
(* JSON records are TLA+ records; a field the record lacks is a key that   *)
(* is not in its DOMAIN, as in JavaScript, where reading it gives          *)
(* undefined.  A timestamp n stands for the ISO-8601 string of instant n.  *)
(***************************************************************************)
EXTENDS Integers, Sequences, FiniteSets, TLC

VARIABLES
    feed,           \* what the backend serves: [seismic, flood, heat] lists
    seismicEvents,  \* Dashboard state (Dashboard.jsx:37)
    floodAlerts,    \* Dashboard state (Dashboard.jsx:38)
    heatAlerts,     \* Dashboard state (Dashboard.jsx:39)
    hospitals,      \* Dashboard state (Dashboard.jsx:40)
    mapLoading,     \* Dashboard state (Dashboard.jsx:41)
    mapFetch,       \* fetchMapData: "unmounted", "pending", "fulfilled", "rejected"
    memoDeps,       \* the dependencies useMemo last computed allAlerts from
    allAlerts,      \* the memoized feed (Dashboard.jsx:66)
    dashboardData,  \* App state (PRD.md:125)
    loading,        \* App state (PRD.md:126)
    error,          \* App state (PRD.md:127)
    interval,       \* the delay of App's live setInterval timer, 0 when none (PRD.md:145)
    appMounted,     \* whether App is mounted
    summaryPending, \* GET /dashboard/summary requests in flight
    hospitalDb,     \* the hospitals the backend holds
    nearCall,       \* the last nearby-hospitals call and what it returned
    floodMonitor,   \* FloodMonitor: its state, timer and requests (part_003:25-58)
    heatWaveMonitor,\* HeatWaveMonitor: its state, timer and requests (part_002:33-69)
    hospitalLocator,\* HospitalLocator: its state and requests (PRD.md:217-270)
    adminPanel,     \* AdminPanel: its state and requests (AdminPanel.jsx:18-114)
    seismicMonitor, \* SeismicMonitor: its state and requests (part_003:450-482)
    activeAlerts    \* the redesigned Dashboard's memoized list (Dashboard.jsx:565)

dashVars == <<seismicEvents, floodAlerts, heatAlerts, hospitals, mapLoading,
              mapFetch, memoDeps, allAlerts>>

appVars == <<dashboardData, loading, error, interval, appMounted, summaryPending>>

nearVars == <<hospitalDb, nearCall>>

pageVars == <<floodMonitor, heatWaveMonitor, hospitalLocator, adminPanel, seismicMonitor, activeAlerts>>

vars == <<feed, dashVars, appVars, nearVars, pageVars>>

(***************************************************************************)
(* Bounds of the model.                                                    *)
(***************************************************************************)
MaxEvents == 2      \* events served by the backend, over the three lists
MaxTime == 2        \* timestamps are the instants 1..MaxTime

(***************************************************************************)
(* The records the backend serves.  A well-formed event has a severity, a  *)
(* timestamp and coordinates; a malformed one lacks one of the three.      *)
(* Events of the two severities the feed shows come at every instant, the  *)
(* others at instant 1; the malformed records are those of Sample with a   *)
(* field dropped.                                                          *)
(***************************************************************************)
Urgent == {"critical", "high"}

RiskLevels == Urgent \cup {"moderate", "low", "severe"}

Undefined == "undefined"

Event(r, t) == [risk_level |-> r, timestamp |-> t, latitude |-> 42, longitude |-> 13]

DropField(e, k) == [f \in DOMAIN e \ {k} |-> e[f]]

WellFormed ==
    {Event(r, t) : r \in Urgent, t \in 1..MaxTime}
      \cup {Event(r, 1) : r \in RiskLevels \ Urgent}

Sample == {Event(r, 1) : r \in Urgent}

Malformed ==
    {DropField(e, "risk_level") : e \in Sample}
      \cup {DropField(e, "timestamp") : e \in Sample}
      \cup {DropField(DropField(e, "latitude"), "longitude") : e \in Sample}

SeismicPayload == [magnitude |-> 5, depth |-> 10, location |-> "Norcia"]

FloodPayload == [region |-> "Veneto", water_level |-> 3, evacuation_advised |-> FALSE]

HeatPayload == [region |-> "Sicilia", temperature |-> 41, feels_like |-> 45]

SeismicRecords == {e @@ SeismicPayload : e \in WellFormed \cup Malformed}

\* evacuation_advised is false, true or missing
FloodRecords ==
    {e @@ FloodPayload : e \in WellFormed \cup Malformed}
      \cup {e @@ [FloodPayload EXCEPT !.evacuation_advised = TRUE] : e \in Sample}
      \cup {e @@ DropField(FloodPayload, "evacuation_advised") : e \in Sample}

HeatRecords == {e @@ HeatPayload : e \in WellFormed \cup Malformed}

SeqsUpTo(S, n) == UNION {[1..k -> S] : k \in 0..n}

\* how n events at most spread over the three lists
Lengths(n) == {k \in (0..n) \X (0..n) \X (0..n) : k[1] + k[2] + k[3] <= n}

\* the feeds with k[1] seismic events, k[2] flood alerts and k[3] heat alerts
FeedsOver(S, F, H, k) ==
    [seismic : [1..k[1] -> S], flood : [1..k[2] -> F], heat : [1..k[3] -> H]]

(***************************************************************************)
(* JavaScript values the aggregation computes with.                        *)
(***************************************************************************)
\* e.risk_level (Dashboard.jsx:70, 83, 96): undefined when the field is missing
RiskLevelOf(e) == IF "risk_level" \in DOMAIN e THEN e.risk_level ELSE Undefined

\* new Date(e.timestamp) (Dashboard.jsx:76, 89, 102): Invalid Date for undefined
NewDate(e) ==
    IF "timestamp" \in DOMAIN e
    THEN [valid |-> TRUE, ms |-> e.timestamp]
    ELSE [valid |-> FALSE]

\* a number, or NaN
Num(n) == [nan |-> FALSE, v |-> n]

NaN == [nan |-> TRUE]

\* b.time - a.time on Dates (Dashboard.jsx:113): NaN when either is invalid
DateMinus(x, y) == IF x.valid /\ y.valid THEN Num(x.ms - y.ms) ELSE NaN

\* a threshold set one rank too low
HighPriorityFromModerate(e) == RiskLevelOf(e) \in {"moderate", "high", "critical"}

\* the condition of the three forEach bodies (Dashboard.jsx:70, 83, 96)
HighPriority(e) == RiskLevelOf(e) = "high" \/ RiskLevelOf(e) = "critical"

\* the alert pushed for a seismic event (Dashboard.jsx:71-78); src is the
\* identity of the object: the index of its event in its list
SeismicAlert(e, i) ==
    [type |-> "seismic", level |-> RiskLevelOf(e),
     title |-> [text |-> "Earthquake", magnitude |-> e.magnitude],
     location |-> e.location, time |-> NewDate(e),
     details |-> [text |-> "Depth", km |-> e.depth], src |-> i]

\* the two branches of the details swapped
FloodAlertSwapped(a, i) ==
    [type |-> "flood", level |-> RiskLevelOf(a),
     title |-> [text |-> "Flood Warning"],
     location |-> a.region, time |-> NewDate(a),
     details |-> IF "evacuation_advised" \in DOMAIN a /\ a.evacuation_advised
                 THEN [text |-> "Water Level", m |-> a.water_level]
                 ELSE [text |-> "Evacuation Advised"],
     src |-> i]

\* the alert pushed for a flood alert (Dashboard.jsx:84-91)
FloodAlert(a, i) ==
    [type |-> "flood", level |-> RiskLevelOf(a),
     title |-> [text |-> "Flood Warning"],
     location |-> a.region, time |-> NewDate(a),
     details |-> IF "evacuation_advised" \in DOMAIN a /\ a.evacuation_advised
                 THEN [text |-> "Evacuation Advised"]
                 ELSE [text |-> "Water Level", m |-> a.water_level],
     src |-> i]

\* the alert pushed for a heat alert (Dashboard.jsx:97-104)
HeatAlert(a, i) ==
    [type |-> "heat", level |-> RiskLevelOf(a),
     title |-> [text |-> "Heat Wave Alert"],
     location |-> a.region, time |-> NewDate(a),
     details |-> [text |-> "Feels like", temperature |-> a.temperature,
                  feels_like |-> a.feels_like],
     src |-> i]

\* list.forEach(x => { if (...) alerts.push(...) }) appended to alerts
RECURSIVE PushEach(_, _, _, _)
PushEach(alerts, list, kind, i) ==
    IF i > Len(list) THEN alerts
    ELSE LET x == list[i]
             a == CASE kind = "seismic" -> SeismicAlert(x, i)
                    [] kind = "flood" -> FloodAlert(x, i)
                    [] OTHER -> HeatAlert(x, i)
         IN PushEach(IF HighPriority(x) THEN Append(alerts, a) ELSE alerts,
                     list, kind, i + 1)

\* the seismic list left out, as in a feed of flood and heat alerts only
PushedWithoutSeismic(seismic, flood, heat) ==
    PushEach(PushEach(<<>>, flood, "flood", 1), heat, "heat", 1)

\* alerts before the sort (Dashboard.jsx:67-106): seismic, then flood, then heat
Pushed(seismic, flood, heat) ==
    PushEach(PushEach(PushEach(<<>>, seismic, "seismic", 1), flood, "flood", 1),
             heat, "heat", 1)

\* levelOrder[level] (Dashboard.jsx:109): undefined (here NaN) for another key
levelOrder(level) ==
    CASE level = "critical" -> Num(0)
      [] level = "high" -> Num(1)
      [] level = "moderate" -> Num(2)
      [] level = "low" -> Num(3)
      [] OTHER -> NaN

\* the comparator (Dashboard.jsx:108-114)
CompareAlerts(a, b) ==
    IF levelOrder(a.level) # levelOrder(b.level)
    THEN IF levelOrder(a.level).nan \/ levelOrder(b.level).nan
         THEN NaN
         ELSE Num(levelOrder(a.level).v - levelOrder(b.level).v)
    ELSE DateMinus(b.time, a.time)

(***************************************************************************)
(* Array.prototype.sort(comparefn), called at Dashboard.jsx:108.  ECMA-262 *)
(* SortCompare reads a NaN result of comparefn as +0.  The sort is stable  *)
(* when comparefn is a consistent comparison function for the elements;    *)
(* when it is not, the order is implementation-defined: any permutation.   *)
(***************************************************************************)
SortCompare(a, b) == IF CompareAlerts(a, b).nan THEN 0 ELSE CompareAlerts(a, b).v

Elements(s) == {s[i] : i \in 1..Len(s)}

ConsistentComparator(s) ==
    \A a, b, c \in Elements(s) :
        /\ SortCompare(a, a) = 0
        /\ (SortCompare(a, b) = 0) = (SortCompare(b, a) = 0)
        /\ (SortCompare(a, b) < 0) = (SortCompare(b, a) > 0)
        /\ SortCompare(a, b) = 0 /\ SortCompare(b, c) = 0 => SortCompare(a, c) = 0
        /\ SortCompare(a, b) < 0 /\ SortCompare(b, c) < 0 => SortCompare(a, c) < 0
        /\ SortCompare(a, b) > 0 /\ SortCompare(b, c) > 0 => SortCompare(a, c) > 0

\* x put after the last element of the sorted prefix that does not follow it
InsertSorted(sorted, x) ==
    LET k == CHOOSE j \in 0..Len(sorted) :
                 /\ j = 0 \/ SortCompare(sorted[j], x) <= 0
                 /\ \A m \in (j + 1)..Len(sorted) : SortCompare(sorted[m], x) > 0
    IN SubSeq(sorted, 1, k) \o <<x>> \o SubSeq(sorted, k + 1, Len(sorted))

RECURSIVE StableSort(_, _)
StableSort(sorted, rest) ==
    IF rest = <<>> THEN sorted
    ELSE StableSort(InsertSorted(sorted, Head(rest)), Tail(rest))

Reorderings(s) ==
    {[i \in 1..Len(s) |-> s[p[i]]] :
        p \in {q \in [1..Len(s) -> 1..Len(s)] :
                  \A i, j \in 1..Len(s) : q[i] = q[j] => i = j}}

\* what alerts.sort(comparefn) may leave in alerts
Sorted(alerts) ==
    IF ConsistentComparator(alerts)
    THEN {StableSort(<<>>, alerts)}
    ELSE Reorderings(alerts)

(***************************************************************************)
(* The useMemo callback (Dashboard.jsx:66-115): the value it returns, and  *)
(* the three arrays it was given as it leaves them.  forEach only reads    *)
(* them, and sort works in place on the array built by the callback.       *)
(***************************************************************************)
Reverse(s) == [i \in 1..Len(s) |-> s[Len(s) + 1 - i]]

\* the callback reversing the heat list in place before it reads it
AllAlertsMemoInPlace(seismic, flood, heat) ==
    {[alerts |-> out, seismicEvents |-> seismic, floodAlerts |-> flood,
      heatAlerts |-> Reverse(heat)] : out \in Sorted(Pushed(seismic, flood, Reverse(heat)))}

AllAlertsMemo(seismic, flood, heat) ==
    {[alerts |-> out, seismicEvents |-> seismic, floodAlerts |-> flood,
      heatAlerts |-> heat] : out \in Sorted(Pushed(seismic, flood, heat))}

\* response.data || [] (Dashboard.jsx:53-56)
OrEmpty(res) == IF "data" \in DOMAIN res THEN res.data ELSE <<>>

NoDeps == [seismic |-> <<>>, flood |-> <<>>, heat |-> <<>>]

Deps == [seismic |-> seismicEvents, flood |-> floodAlerts, heat |-> heatAlerts]

HospitalRecords == {[id |-> "h1", name |-> "Policlinico Umberto I"]}

(***************************************************************************)
(* The Dashboard component (Dashboard.jsx:36-115).                         *)
(***************************************************************************)
\* useState initial values and the first render (Dashboard.jsx:37-41, 66)
DashInit ==
    /\ seismicEvents = <<>>
    /\ floodAlerts = <<>>
    /\ heatAlerts = <<>>
    /\ hospitals = <<>>
    /\ mapLoading = TRUE
    /\ mapFetch = "unmounted"
    /\ memoDeps = NoDeps
    /\ allAlerts \in {o.alerts : o \in AllAlertsMemo(<<>>, <<>>, <<>>)}

\* the mount effect calls fetchMapData (Dashboard.jsx:43-52, 63)
FetchMapDataStart ==
    /\ mapFetch = "unmounted"
    /\ mapFetch' = "pending"
    /\ mapLoading' = TRUE
    /\ UNCHANGED <<seismicEvents, floodAlerts, heatAlerts, hospitals,
                   memoDeps, allAlerts>>
    /\ UNCHANGED <<feed, appVars, nearVars, pageVars>>

\* Promise.all fulfilled (Dashboard.jsx:53-56, 59-61)
FetchMapDataResolve ==
    /\ mapFetch = "pending"
    /\ \E hospitalRes \in {[data |-> h] : h \in SeqsUpTo(HospitalRecords, 1)}
                          \cup {[status |-> 200]} :
          hospitals' = OrEmpty(hospitalRes)
    /\ seismicEvents' = OrEmpty([data |-> feed.seismic])
    /\ floodAlerts' = OrEmpty([data |-> feed.flood])
    /\ heatAlerts' = OrEmpty([data |-> feed.heat])
    /\ mapLoading' = FALSE
    /\ mapFetch' = "fulfilled"
    /\ UNCHANGED <<memoDeps, allAlerts>>
    /\ UNCHANGED <<feed, appVars, nearVars, pageVars>>

\* the requests of Promise.all (Dashboard.jsx:48-51)
MapRequests == {"seismic", "flood", "heat", "hospitals"}

\* the lists of the requests that were fulfilled put in place all the same
FetchMapDataRejectKeepsFulfilled ==
    /\ mapFetch = "pending"
    /\ \E failed \in (SUBSET MapRequests) \ {{}} :
          /\ seismicEvents' = IF "seismic" \in failed THEN seismicEvents
                                                      ELSE feed.seismic
          /\ floodAlerts' = IF "flood" \in failed THEN floodAlerts ELSE feed.flood
          /\ heatAlerts' = IF "heat" \in failed THEN heatAlerts ELSE feed.heat
    /\ mapLoading' = FALSE
    /\ mapFetch' = "rejected"
    /\ UNCHANGED <<hospitals, memoDeps, allAlerts>>
    /\ UNCHANGED <<feed, appVars, nearVars, pageVars>>

\* some of the four requests rejected: Promise.all rejects and the setters
\* are skipped (Dashboard.jsx:47-61)
FetchMapDataReject ==
    /\ mapFetch = "pending"
    /\ \E failed \in (SUBSET MapRequests) \ {{}} :
          UNCHANGED <<seismicEvents, floodAlerts, heatAlerts, hospitals>>
    /\ mapLoading' = FALSE
    /\ mapFetch' = "rejected"
    /\ UNCHANGED <<memoDeps, allAlerts>>
    /\ UNCHANGED <<feed, appVars, nearVars, pageVars>>

\* a render whose useMemo dependencies changed (Dashboard.jsx:66-115)
Render ==
    /\ memoDeps # Deps
    /\ \E o \in AllAlertsMemo(seismicEvents, floodAlerts, heatAlerts) :
          /\ allAlerts' = o.alerts
          /\ seismicEvents' = o.seismicEvents
          /\ floodAlerts' = o.floodAlerts
          /\ heatAlerts' = o.heatAlerts
    /\ memoDeps' = Deps
    /\ UNCHANGED <<hospitals, mapLoading, mapFetch>>
    /\ UNCHANGED <<feed, appVars, nearVars, pageVars>>

(***************************************************************************)
(* App (quoted in PRD.md:124-147): the dashboard summary and its polling.  *)
(***************************************************************************)
Null == "null"

MaxPending == 2     \* summary requests in flight at once

\* the payload of GET /dashboard/summary: here the size of the feed
Summary(f) == [total_events |-> Len(f.seismic) + Len(f.flood) + Len(f.heat)]

NoSummary == [status |-> Null]

DashboardPollMs == 60000

\* a cleanup that leaves the timer running
ClearIntervalForgotten(timer) == timer

\* clearInterval(interval): the timer is no more
ClearInterval(timer) == 0

\* useState initial values (PRD.md:125-127); no timer yet
AppInit ==
    /\ dashboardData = NoSummary
    /\ loading = TRUE
    /\ error = Null
    /\ interval = 0
    /\ appMounted = FALSE
    /\ summaryPending = 0

\* fetchDashboardData setting loading before its request, as the fetchData
\* of the monitors does
FetchDashboardDataStartSetsLoading ==
    /\ summaryPending < MaxPending
    /\ summaryPending' = summaryPending + 1
    /\ loading' = TRUE
    /\ UNCHANGED <<dashboardData, error>>

\* fetchDashboardData up to its await (PRD.md:129-131)
FetchDashboardDataStart ==
    /\ summaryPending < MaxPending
    /\ summaryPending' = summaryPending + 1
    /\ UNCHANGED <<dashboardData, loading, error>>

\* the mount effect: a first fetch, then one every 60 s (PRD.md:142-147)
AppMount ==
    /\ ~appMounted
    /\ appMounted' = TRUE
    /\ interval' = DashboardPollMs
    /\ summaryPending' = 1
    /\ dashboardData' = NoSummary
    /\ loading' = TRUE
    /\ error' = Null
    /\ UNCHANGED <<feed, dashVars, nearVars, pageVars>>

\* the timer of setInterval(fetchDashboardData, 60000) fires (PRD.md:145)
IntervalTick ==
    /\ interval # 0
    /\ FetchDashboardDataStart
    /\ UNCHANGED <<interval, appMounted, feed, dashVars, nearVars, pageVars>>

\* the Retry or refresh button: onRefresh={fetchDashboardData}
\* (Dashboard.jsx:147, 338; PRD.md:161)
OnRefresh ==
    /\ appMounted
    /\ FetchDashboardDataStart
    /\ UNCHANGED <<interval, appMounted, feed, dashVars, nearVars, pageVars>>

\* the request fulfilled, with setError(null) left out
FetchDashboardDataResolveKeepsError ==
    /\ summaryPending > 0
    /\ summaryPending' = summaryPending - 1
    /\ dashboardData' = Summary(feed)
    /\ loading' = FALSE
    /\ UNCHANGED <<error, interval, appMounted, feed, dashVars, nearVars, pageVars>>

\* the request fulfilled (PRD.md:132-133, 137-139)
FetchDashboardDataResolve ==
    /\ summaryPending > 0
    /\ summaryPending' = summaryPending - 1
    /\ dashboardData' = Summary(feed)
    /\ error' = Null
    /\ loading' = FALSE
    /\ UNCHANGED <<interval, appMounted, feed, dashVars, nearVars, pageVars>>

\* the request rejected, the summary held dropped with it
FetchDashboardDataRejectDropsData ==
    /\ summaryPending > 0
    /\ summaryPending' = summaryPending - 1
    /\ dashboardData' = NoSummary
    /\ error' = "Failed to fetch dashboard data"
    /\ loading' = FALSE
    /\ UNCHANGED <<interval, appMounted, feed, dashVars, nearVars, pageVars>>

\* the request rejected (PRD.md:134-139)
FetchDashboardDataReject ==
    /\ summaryPending > 0
    /\ summaryPending' = summaryPending - 1
    /\ error' = "Failed to fetch dashboard data"
    /\ loading' = FALSE
    /\ UNCHANGED <<dashboardData, interval, appMounted, feed, dashVars, nearVars, pageVars>>

\* the cleanup of the mount effect (PRD.md:146); what requests in flight
\* set afterwards is state of an unmounted component, which nothing shows
AppUnmount ==
    /\ appMounted
    /\ appMounted' = FALSE
    /\ interval' = ClearInterval(interval)
    /\ summaryPending' = 0
    /\ UNCHANGED <<dashboardData, loading, error>>
    /\ UNCHANGED <<feed, dashVars, nearVars, pageVars>>

(***************************************************************************)
(* The proximity search GET /hospitals/nearby?lat&lon&limit (PRD.md:45),   *)
(* after spec.md 4.2: haversine distance from the reference point to each  *)
(* hospital, a stable ascending sort, the first k; nothing for k <= 0.     *)
(* Hospitals and reference points lie on one meridian, KmPerStep km of arc *)
(* apart, where the haversine distance 2 R atan2(sqrt a, sqrt(1 - a)) with *)
(* a = sin^2(dlat / 2) is R |dlat|: the steps between them times KmPerStep.*)
(***************************************************************************)
MaxHospitals == 3   \* hospitals the backend holds

MaxLat == 2         \* latitudes are -MaxLat..MaxLat steps from the origin

MaxK == 2           \* the limits asked for are -1..MaxK

KmPerStep == 5

NearbyLimit == 5    \* limit=5 (part_002:88)

Lats == (0 - MaxLat)..MaxLat

Abs(n) == IF n < 0 THEN 0 - n ELSE n

Min(a, b) == IF a <= b THEN a ELSE b

Max(a, b) == IF a >= b THEN a ELSE b

\* the hospitals at the latitudes lats, in that order
HospitalsAt(lats) == [i \in DOMAIN lats |-> [id |-> i, latitude |-> lats[i], longitude |-> 0]]

\* the difference of the latitudes with its sign kept
DistanceSigned(lat, h) == KmPerStep * (h.latitude - lat)

\* haversine distance in km between latitude lat and hospital h
Distance(lat, h) == KmPerStep * Abs(h.latitude - lat)

\* h put before the first hospital of the sorted prefix that is not nearer
InsertBeforeTies(lat, sorted, h) ==
    LET k == CHOOSE j \in 0..Len(sorted) :
                 /\ \A m \in 1..j : Distance(lat, sorted[m]) < Distance(lat, h)
                 /\ j = Len(sorted) \/ Distance(lat, sorted[j + 1]) >= Distance(lat, h)
    IN SubSeq(sorted, 1, k) \o <<h>> \o SubSeq(sorted, k + 1, Len(sorted))

\* h put after the last hospital of the sorted prefix that is not farther
InsertByDistance(lat, sorted, h) ==
    LET k == CHOOSE j \in 0..Len(sorted) :
                 /\ j = 0 \/ Distance(lat, sorted[j]) <= Distance(lat, h)
                 /\ \A m \in (j + 1)..Len(sorted) :
                       Distance(lat, sorted[m]) > Distance(lat, h)
    IN SubSeq(sorted, 1, k) \o <<h>> \o SubSeq(sorted, k + 1, Len(sorted))

RECURSIVE SortByDistance(_, _, _)
SortByDistance(lat, sorted, rest) ==
    IF rest = <<>> THEN sorted
    ELSE SortByDistance(lat, InsertByDistance(lat, sorted, Head(rest)), Tail(rest))

\* the first k of the sort, with no guard for k <= 0
NearestUnguarded(lat, H, k) ==
    SubSeq(SortByDistance(lat, <<>>, H), 1, Min(Max(k, 1), Len(H)))

\* the first k of the list as it is held, unsorted
NearestInListOrder(lat, H, k) ==
    IF k <= 0 THEN <<>>
    ELSE SubSeq(H, 1, Min(k, Len(H)))

\* the sort cut as sorted.slice(0, k) cuts it: a negative k counts from the end
NearestSliced(lat, H, k) ==
    SubSeq(SortByDistance(lat, <<>>, H), 1,
           IF k >= 0 THEN Min(k, Len(H)) ELSE Max(Len(H) + k, 0))

\* nearest(referenceLat, referenceLon, hospitals, k)
Nearest(lat, H, k) ==
    IF k <= 0 THEN <<>>
    ELSE SubSeq(SortByDistance(lat, <<>>, H), 1, Min(k, Len(H)))

(***************************************************************************)
(* The domain monitors FloodMonitor (part_003:25-58) and HeatWaveMonitor   *)
(* (part_002:33-69).  Each is a record of its useState values, the delay   *)
(* of its live timer (0 when none), the fetchData calls in flight, and the *)
(* responses of the last fetchData that was fulfilled.                     *)
(***************************************************************************)
FloodPollMs == 300000

HeatPollMs == 300000

NoResponse == [status |-> "none"]

NoStats == [status |-> Null]

\* a response with a body and one without
WithData(x) == [data |-> x]

NoData == [status |-> 200]

\* setStats(statsRes.data): the body, or undefined
DataOf(res) == IF "data" \in DOMAIN res THEN res.data ELSE [status |-> Undefined]

\* the list put in place of the one held, with the one held added to it
SnapshotMerged(held, res) == held \o OrEmpty(res)

\* setAlerts(alertsRes.data || []): the list put in place of the one held
Snapshot(held, res) == OrEmpty(res)

FloodAlertLists ==
    {<<>>, <<Event("high", 1) @@ FloodPayload>>, <<Event("low", 2) @@ FloodPayload>>}

SafeZoneLists == {<<[id |-> "z1", zone_type |-> "flood_high_ground"]>>}

\* what Promise.all of the three requests may be fulfilled with
FloodResponses ==
    [alertsRes : {NoData} \cup {WithData(l) : l \in FloodAlertLists},
     statsRes : {WithData([active_alerts |-> 1])},
     safeRes : {NoData} \cup {WithData(l) : l \in SafeZoneLists}]

MaxPredictions == 2  \* prediction requests of a monitor in flight at once

\* useState(null) prediction (part_003:32, part_002:41)
NoPrediction == [status |-> Null]

\* what POST /predictions/generate may be fulfilled with
PredictionResponses(type) == {NoData, WithData([disaster_type |-> type])}

\* the trigger enabled whatever generatingPrediction is
TriggerAlwaysEnabled(monitor) == FALSE

\* disabled={generatingPrediction} (part_003:338, part_002:426)
TriggerDisabled(monitor) == monitor.generatingPrediction

\* the page is rendered, not its skeleton (part_003:100, part_002:112)
MonitorShown(monitor) ==
    monitor.mounted /\ ~(monitor.loading /\ monitor.alerts = <<>>)

\* generatePrediction up to its await (part_003:60-65, part_002:71-76)
PredictionStarted(monitor) ==
    [monitor EXCEPT !.generatingPrediction = TRUE, !.predicting = @ + 1]

\* generatePrediction after the request is fulfilled (part_003:66-67, 70-72)
PredictionSucceeded(monitor, res) ==
    [monitor EXCEPT !.prediction = DataOf(res), !.generatingPrediction = FALSE,
                    !.predicting = @ - 1]

\* generatePrediction after the request is rejected (part_003:68-72)
PredictionFailed(monitor) ==
    [monitor EXCEPT !.generatingPrediction = FALSE, !.predicting = @ - 1]

\* useState initial values (part_003:26-32)
FloodMonitorUnmounted ==
    [mounted |-> FALSE, interval |-> 0, pending |-> 0, alerts |-> <<>>,
     stats |-> NoStats, loading |-> TRUE, safeZones |-> <<>>,
     lastResponse |-> NoResponse, generatingPrediction |-> FALSE,
     prediction |-> NoPrediction, predicting |-> 0]

\* the mount effect: fetchData, then the timer (part_003:53-56)
FloodMonitorMount ==
    /\ ~floodMonitor.mounted
    /\ floodMonitor' = [FloodMonitorUnmounted EXCEPT !.mounted = TRUE,
                          !.interval = FloodPollMs, !.pending = 1, !.loading = TRUE]
    /\ UNCHANGED <<feed, dashVars, appVars, nearVars, heatWaveMonitor, hospitalLocator, adminPanel, seismicMonitor, activeAlerts>>

\* the timer of setInterval(fetchData, 300000) fires (part_003:56, 34-35)
FloodMonitorIntervalTick ==
    /\ floodMonitor.interval # 0
    /\ floodMonitor.pending < MaxPending
    /\ floodMonitor' = [floodMonitor EXCEPT !.pending = @ + 1, !.loading = TRUE]
    /\ UNCHANGED <<feed, dashVars, appVars, nearVars, heatWaveMonitor, hospitalLocator, adminPanel, seismicMonitor, activeAlerts>>

\* fetchData after Promise.all is fulfilled (part_003:42-44, 48-50)
FloodMonitorFetchDataResolve ==
    /\ floodMonitor.pending > 0
    /\ \E r \in FloodResponses :
          floodMonitor' = [floodMonitor EXCEPT
                             !.alerts = Snapshot(@, r.alertsRes),
                             !.stats = DataOf(r.statsRes),
                             !.safeZones = Snapshot(@, r.safeRes),
                             !.loading = FALSE,
                             !.pending = @ - 1,
                             !.lastResponse = r]
    /\ UNCHANGED <<feed, dashVars, appVars, nearVars, heatWaveMonitor, hospitalLocator, adminPanel, seismicMonitor, activeAlerts>>

\* fetchData after a request is rejected (part_003:45-50)
FloodMonitorFetchDataReject ==
    /\ floodMonitor.pending > 0
    /\ floodMonitor' = [floodMonitor EXCEPT !.loading = FALSE, !.pending = @ - 1]
    /\ UNCHANGED <<feed, dashVars, appVars, nearVars, heatWaveMonitor, hospitalLocator, adminPanel, seismicMonitor, activeAlerts>>

\* the cleanup of the mount effect (part_003:57)
FloodMonitorUnmount ==
    /\ floodMonitor.mounted
    /\ floodMonitor' = [floodMonitor EXCEPT !.mounted = FALSE,
                          !.interval = ClearInterval(@), !.pending = 0,
                          !.predicting = 0]
    /\ UNCHANGED <<feed, dashVars, appVars, nearVars, heatWaveMonitor, hospitalLocator, adminPanel, seismicMonitor, activeAlerts>>

\* the generate-flood-prediction button (part_003:336-338)
FloodGeneratePrediction ==
    /\ MonitorShown(floodMonitor)
    /\ ~TriggerDisabled(floodMonitor)
    /\ floodMonitor.predicting < MaxPredictions
    /\ floodMonitor' = PredictionStarted(floodMonitor)
    /\ UNCHANGED <<feed, dashVars, appVars, nearVars, heatWaveMonitor, hospitalLocator, adminPanel, seismicMonitor, activeAlerts>>

FloodPredictionResolve ==
    /\ floodMonitor.predicting > 0
    /\ \E res \in PredictionResponses("flood") :
          floodMonitor' = PredictionSucceeded(floodMonitor, res)
    /\ UNCHANGED <<feed, dashVars, appVars, nearVars, heatWaveMonitor, hospitalLocator, adminPanel, seismicMonitor, activeAlerts>>

FloodPredictionReject ==
    /\ floodMonitor.predicting > 0
    /\ floodMonitor' = PredictionFailed(floodMonitor)
    /\ UNCHANGED <<feed, dashVars, appVars, nearVars, heatWaveMonitor, hospitalLocator, adminPanel, seismicMonitor, activeAlerts>>

HeatAlertLists == {<<Event("critical", 1) @@ HeatPayload>>}

CoolingCenterLists == {<<[id |-> "z2", zone_type |-> "cooling_center"]>>}

\* what Promise.all of the four requests may be fulfilled with
HeatResponses ==
    [alertsRes : {NoData} \cup {WithData(l) : l \in HeatAlertLists},
     statsRes : {WithData([active_alerts |-> 1])},
     hospitalsRes : {WithData(l) : l \in SeqsUpTo(HospitalRecords, 1)},
     coolRes : {WithData(l) : l \in CoolingCenterLists}]

\* useState initial values (part_002:34-37, 42)
HeatWaveMonitorUnmounted ==
    [mounted |-> FALSE, interval |-> 0, pending |-> 0, alerts |-> <<>>,
     stats |-> NoStats, hospitals |-> <<>>, loading |-> TRUE,
     coolingCenters |-> <<>>, lastResponse |-> NoResponse,
     generatingPrediction |-> FALSE, prediction |-> NoPrediction, predicting |-> 0]

\* the mount effect: fetchData, then the timer (part_002:65-67)
HeatWaveMonitorMount ==
    /\ ~heatWaveMonitor.mounted
    /\ heatWaveMonitor' = [HeatWaveMonitorUnmounted EXCEPT !.mounted = TRUE,
                             !.interval = HeatPollMs, !.pending = 1, !.loading = TRUE]
    /\ UNCHANGED <<feed, dashVars, appVars, nearVars, floodMonitor, hospitalLocator, adminPanel, seismicMonitor, activeAlerts>>

\* the timer of setInterval(fetchData, 300000) fires (part_002:67, 44-45)
HeatWaveMonitorIntervalTick ==
    /\ heatWaveMonitor.interval # 0
    /\ heatWaveMonitor.pending < MaxPending
    /\ heatWaveMonitor' = [heatWaveMonitor EXCEPT !.pending = @ + 1, !.loading = TRUE]
    /\ UNCHANGED <<feed, dashVars, appVars, nearVars, floodMonitor, hospitalLocator, adminPanel, seismicMonitor, activeAlerts>>

\* fetchData after Promise.all is fulfilled (part_002:53-56, 60-62)
HeatWaveMonitorFetchDataResolve ==
    /\ heatWaveMonitor.pending > 0
    /\ \E r \in HeatResponses :
          heatWaveMonitor' = [heatWaveMonitor EXCEPT
                                !.alerts = Snapshot(@, r.alertsRes),
                                !.stats = DataOf(r.statsRes),
                                !.hospitals = Snapshot(@, r.hospitalsRes),
                                !.coolingCenters = Snapshot(@, r.coolRes),
                                !.loading = FALSE,
                                !.pending = @ - 1,
                                !.lastResponse = r]
    /\ UNCHANGED <<feed, dashVars, appVars, nearVars, floodMonitor, hospitalLocator, adminPanel, seismicMonitor, activeAlerts>>

\* fetchData after a request is rejected (part_002:57-62)
HeatWaveMonitorFetchDataReject ==
    /\ heatWaveMonitor.pending > 0
    /\ heatWaveMonitor' = [heatWaveMonitor EXCEPT !.loading = FALSE, !.pending = @ - 1]
    /\ UNCHANGED <<feed, dashVars, appVars, nearVars, floodMonitor, hospitalLocator, adminPanel, seismicMonitor, activeAlerts>>

\* the cleanup of the mount effect (part_002:68)
HeatWaveMonitorUnmount ==
    /\ heatWaveMonitor.mounted
    /\ heatWaveMonitor' = [heatWaveMonitor EXCEPT !.mounted = FALSE,
                             !.interval = ClearInterval(@), !.pending = 0,
                             !.predicting = 0]
    /\ UNCHANGED <<feed, dashVars, appVars, nearVars, floodMonitor, hospitalLocator, adminPanel, seismicMonitor, activeAlerts>>

\* the generate-heat-prediction button (part_002:424-426)
HeatGeneratePrediction ==
    /\ MonitorShown(heatWaveMonitor)
    /\ ~TriggerDisabled(heatWaveMonitor)
    /\ heatWaveMonitor.predicting < MaxPredictions
    /\ heatWaveMonitor' = PredictionStarted(heatWaveMonitor)
    /\ UNCHANGED <<feed, dashVars, appVars, nearVars, floodMonitor, hospitalLocator, adminPanel, seismicMonitor, activeAlerts>>

HeatPredictionResolve ==
    /\ heatWaveMonitor.predicting > 0
    /\ \E res \in PredictionResponses("heatwave") :
          heatWaveMonitor' = PredictionSucceeded(heatWaveMonitor, res)
    /\ UNCHANGED <<feed, dashVars, appVars, nearVars, floodMonitor, hospitalLocator, adminPanel, seismicMonitor, activeAlerts>>

HeatPredictionReject ==
    /\ heatWaveMonitor.predicting > 0
    /\ heatWaveMonitor' = PredictionFailed(heatWaveMonitor)
    /\ UNCHANGED <<feed, dashVars, appVars, nearVars, floodMonitor, hospitalLocator, adminPanel, seismicMonitor, activeAlerts>>

(***************************************************************************)
(* HospitalLocator's Find Near Me (PRD.md:224-225, 248-270): the state it  *)
(* sets, the position requests and nearby requests in flight (each nearby  *)
(* request with the latitude it asks for), and the toasts shown so far.    *)
(***************************************************************************)
MaxCalls == 3       \* clicks on Find Near Me

NoLocation == [status |-> Null]

ToastFound == "Found nearby hospitals"

ToastFailed == "Failed to find nearby hospitals"

ToastDenied == "Location access denied. Please enable location services."

ToastUnsupported == "Geolocation is not supported by your browser"

\* the latitudes the browser may report
PositionLats == {0, MaxLat}

\* useState initial values (PRD.md:224-225)
HospitalLocatorInit ==
    [nearbyHospitals |-> <<>>, userLocation |-> NoLocation, calls |-> 0,
     positionPending |-> 0, nearbyPending |-> <<>>, toasts |-> <<>>,
     mounted |-> FALSE, hospitals |-> <<>>, loading |-> TRUE, searchTerm |-> <<>>,
     regionFilter |-> "all", listPending |-> 0]

\* the error callback of getCurrentPosition clearing the list as well
DeniedClearsNearby(h) ==
    [h EXCEPT !.positionPending = @ - 1, !.nearbyHospitals = <<>>,
              !.toasts = Append(@, ToastDenied)]

\* the error callback of getCurrentPosition (PRD.md:263-265)
Denied(h) == [h EXCEPT !.positionPending = @ - 1, !.toasts = Append(@, ToastDenied)]

\* findNearMe with navigator.geolocation: getCurrentPosition (PRD.md:248-250)
FindNearMe ==
    /\ hospitalLocator.calls < MaxCalls
    /\ hospitalLocator' = [hospitalLocator EXCEPT !.calls = @ + 1,
                                                  !.positionPending = @ + 1]
    /\ UNCHANGED <<feed, dashVars, appVars, nearVars, floodMonitor, heatWaveMonitor,
                   adminPanel, seismicMonitor, activeAlerts>>

\* findNearMe without navigator.geolocation (PRD.md:266-268)
FindNearMeUnsupported ==
    /\ hospitalLocator.calls < MaxCalls
    /\ hospitalLocator' = [hospitalLocator EXCEPT !.calls = @ + 1,
                              !.toasts = Append(@, ToastUnsupported)]
    /\ UNCHANGED <<feed, dashVars, appVars, nearVars, floodMonitor, heatWaveMonitor,
                   adminPanel, seismicMonitor, activeAlerts>>

\* the position arrives: setUserLocation, then the request (PRD.md:251-256)
PositionSuccess ==
    /\ hospitalLocator.positionPending > 0
    /\ \E lat \in PositionLats :
          hospitalLocator' = [hospitalLocator EXCEPT
                                !.positionPending = @ - 1,
                                !.userLocation = [lat |-> lat, lon |-> 0],
                                !.nearbyPending = Append(@, lat)]
    /\ UNCHANGED <<feed, dashVars, appVars, nearVars, floodMonitor, heatWaveMonitor,
                   adminPanel, seismicMonitor, activeAlerts>>

\* the user declines, or the position cannot be had (PRD.md:263-265)
PositionError ==
    /\ hospitalLocator.positionPending > 0
    /\ hospitalLocator' = Denied(hospitalLocator)
    /\ UNCHANGED <<feed, dashVars, appVars, nearVars, floodMonitor, heatWaveMonitor,
                   adminPanel, seismicMonitor, activeAlerts>>

\* a sequence without its i-th element
Without(seq, i) == SubSeq(seq, 1, i - 1) \o SubSeq(seq, i + 1, Len(seq))

\* a nearby request is answered (PRD.md:256-258)
FindNearMeResolve ==
    /\ \E i \in DOMAIN hospitalLocator.nearbyPending :
        \E res \in {NoData, WithData(Nearest(hospitalLocator.nearbyPending[i],
                                             hospitalDb, NearbyLimit))} :
          hospitalLocator' = [hospitalLocator EXCEPT
                                !.nearbyPending = Without(@, i),
                                !.nearbyHospitals = OrEmpty(res),
                                !.toasts = Append(@, ToastFound)]
    /\ UNCHANGED <<feed, dashVars, appVars, nearVars, floodMonitor, heatWaveMonitor,
                   adminPanel, seismicMonitor, activeAlerts>>

\* a nearby request fails (PRD.md:259-261)
FindNearMeReject ==
    /\ \E i \in DOMAIN hospitalLocator.nearbyPending :
          hospitalLocator' = [hospitalLocator EXCEPT
                                !.nearbyPending = Without(@, i),
                                !.toasts = Append(@, ToastFailed)]
    /\ UNCHANGED <<feed, dashVars, appVars, nearVars, floodMonitor, heatWaveMonitor,
                   adminPanel, seismicMonitor, activeAlerts>>

(***************************************************************************)
(* HospitalLocator's list and its filter (PRD.md:218-246, 272-288, 513-518;*)
(* HospitalLocator.jsx:57-62).  A string is the sequence of its characters.*)
(***************************************************************************)
\* toLowerCase of a character
KeepCase(ch) == ch

ToLowerCase(ch) ==
    CASE ch = "A" -> "a"
      [] ch = "B" -> "b"
      [] OTHER -> ch

\* String.prototype.toLowerCase
LowerCased(str) == [i \in DOMAIN str |-> ToLowerCase(str[i])]

\* String.prototype.includes
Includes(str, sub) ==
    \E k \in 0..(Len(str) - Len(sub)) : SubSeq(str, k + 1, k + Len(sub)) = sub

\* matchesSearch (PRD.md:273-274)
MatchesSearch(h, searchTerm) ==
    \/ Includes(LowerCased(h.name), LowerCased(searchTerm))
    \/ Includes(LowerCased(h.city), LowerCased(searchTerm))

\* matchesRegion (PRD.md:275)
MatchesRegion(h, regionFilter) == regionFilter = "all" \/ h.region = regionFilter

\* hospitals.filter(...) (PRD.md:272-277)
Filter(list, searchTerm, regionFilter) ==
    LET Test(h) == MatchesSearch(h, searchTerm) /\ MatchesRegion(h, regionFilter)
    IN  SelectSeq(list, Test)

FilteredHospitals(loc) == Filter(loc.hospitals, loc.searchTerm, loc.regionFilter)

\* the list shown, the filter applied to the nearby hospitals too
DisplayedFiltered(loc) ==
    IF Len(loc.nearbyHospitals) > 0
        THEN Filter(loc.nearbyHospitals, loc.searchTerm, loc.regionFilter)
        ELSE FilteredHospitals(loc)

\* the list shown (PRD.md:518)
Displayed(loc) ==
    IF Len(loc.nearbyHospitals) > 0 THEN loc.nearbyHospitals
                                    ELSE FilteredHospitals(loc)

\* what is typed into the search box
SearchTerms == {<<>>, <<"a">>, <<"A", "b">>, <<"B">>}

\* the hospitals the server may hold, by name, city and region
HospitalNames ==
    {[name |-> <<"A", "b">>, city |-> <<"b", "a">>, region |-> "Lazio"],
     [name |-> <<"b", "B">>, city |-> <<"a">>, region |-> "Sicilia"],
     [name |-> <<"B">>, city |-> <<"B", "b">>, region |-> "all"]}

\* the hospitals at the origin with these names, in this order
HospitalsNamed(names) ==
    [i \in DOMAIN names |-> names[i] @@ [id |-> i, latitude |-> 0, longitude |-> 0]]

\* the SelectItem values of the region filter (PRD.md:499-501)
Regions(loc) == {"all"} \cup {loc.hospitals[i].region : i \in DOMAIN loc.hospitals}

\* the page is rendered, not its skeleton (PRD.md:288)
LocatorShown ==
    hospitalLocator.mounted
    /\ ~(hospitalLocator.loading /\ hospitalLocator.hospitals = <<>>)

notLocator == <<feed, dashVars, appVars, nearVars, floodMonitor, heatWaveMonitor,
                adminPanel, seismicMonitor, activeAlerts>>

\* fetchData up to its await (PRD.md:227-233)
LocatorFetchStarted(loc) == [loc EXCEPT !.loading = TRUE, !.listPending = @ + 1]

\* the mount effect (PRD.md:244-246)
HospitalLocatorMount ==
    /\ ~hospitalLocator.mounted
    /\ hospitalLocator' = LocatorFetchStarted([hospitalLocator EXCEPT !.mounted = TRUE])
    /\ UNCHANGED notLocator

\* the Refresh button (PRD.md:322)
HospitalLocatorRefresh ==
    /\ LocatorShown
    /\ hospitalLocator.listPending < MaxPending
    /\ hospitalLocator' = LocatorFetchStarted(hospitalLocator)
    /\ UNCHANGED notLocator

\* fetchData after Promise.all is fulfilled (PRD.md:234-235, 239-241)
LocatorFetchDataResolve ==
    /\ hospitalLocator.listPending > 0
    /\ \E res \in {NoData, WithData(hospitalDb)} :
          hospitalLocator' = [hospitalLocator EXCEPT !.hospitals = OrEmpty(res),
                                                    !.loading = FALSE,
                                                    !.listPending = @ - 1]
    /\ UNCHANGED notLocator

\* fetchData after a request is rejected (PRD.md:236-241)
LocatorFetchDataReject ==
    /\ hospitalLocator.listPending > 0
    /\ hospitalLocator' = [hospitalLocator EXCEPT !.loading = FALSE,
                                                  !.listPending = @ - 1]
    /\ UNCHANGED notLocator

\* the search box (PRD.md:490)
SetSearchTerm ==
    /\ LocatorShown
    /\ \E term \in SearchTerms \ {hospitalLocator.searchTerm} :
          hospitalLocator' = [hospitalLocator EXCEPT !.searchTerm = term]
    /\ UNCHANGED notLocator

\* the region filter (PRD.md:494-501)
SetRegionFilter ==
    /\ LocatorShown
    /\ \E region \in Regions(hospitalLocator) \ {hospitalLocator.regionFilter} :
          hospitalLocator' = [hospitalLocator EXCEPT !.regionFilter = region]
    /\ UNCHANGED notLocator

(***************************************************************************)
(* AdminPanel (AdminPanel.jsx:18-114): its useState values, the requests   *)
(* in flight (each GET with the list the server read for it, each PUT and  *)
(* POST with its body), and the outcome of the fetchData that completed    *)
(* last.  Bed counts are numbers as JavaScript has them, NaN included.     *)
(***************************************************************************)
\* PUT /hospitals/{id}: the fields of the body replace those of the record
Persisted(db, id, body) ==
    [i \in DOMAIN db |-> IF db[i].id = id THEN body @@ db[i] ELSE db[i]]

\* POST /hospitals: the record is stored under a new id
Created(db, body) ==
    Append(db, body @@ [id |-> Len(db) + 1, emergency_capacity |-> TRUE])

MaxTyped == 1       \* values typed into the panel's inputs

MaxSaves == 1       \* clicks on a save button

MaxFetches == 1     \* requests for the list in flight when Refresh is clicked

\* what is typed into a number input: its value is "" when it is empty
TypedValues == {"", "-1", "3"}

\* parseInt(e.target.value)
ParseInt(str) ==
    CASE str = "-1" -> Num(0 - 1)
      [] str = "3" -> Num(3)
      [] OTHER -> NaN

IsNaN(x) == "nan" \in DOMAIN x /\ x.nan

JsonNull == [null |-> TRUE]

\* JSON.stringify of a number: NaN becomes null
ToJson(x) == IF IsNaN(x) THEN JsonNull ELSE x

\* a hospital as GET /hospitals gives it, with its bed counts
AdminHospital(id, beds, free) ==
    [id |-> id, total_beds |-> Num(beds), available_beds |-> Num(free),
     icu_beds |-> Num(1), icu_available |-> Num(1), emergency_capacity |-> TRUE]

AdminHospitals == <<AdminHospital(1, 2, 1), AdminHospital(2, 2, 2)>>

\* useState({}) and setEditValues({})
NoEditValues == [empty |-> TRUE]

\* the initial newHospital, its bed fields (AdminPanel.jsx:26-39)
BlankHospital ==
    [total_beds |-> "", available_beds |-> "", icu_beds |-> "", icu_available |-> ""]

\* useState initial values (AdminPanel.jsx:19-39); no request in flight
AdminPanelUnmounted ==
    [mounted |-> FALSE, hospitals |-> <<>>, loading |-> TRUE, editingHospital |-> 0,
     editValues |-> NoEditValues, saving |-> FALSE, showAddDialog |-> FALSE,
     newHospital |-> BlankHospital, fetches |-> <<>>, lastFetch |-> "none",
     updates |-> <<>>, posts |-> <<>>, toast |-> "none", typed |-> 0, saves |-> 0]

\* the frame of the panel's actions
notAdmin == <<feed, dashVars, appVars, nearCall, floodMonitor, heatWaveMonitor,
              hospitalLocator, seismicMonitor, activeAlerts>>

\* the panel is rendered, not its skeleton (AdminPanel.jsx:116)
PanelShown == adminPanel.mounted /\ ~(adminPanel.loading /\ adminPanel.hospitals = <<>>)

\* fetchData up to its await, the server reading the list at once
\* (AdminPanel.jsx:41-47)
FetchDataStarted(a, db) == [a EXCEPT !.loading = TRUE, !.fetches = Append(@, db)]

\* the mount effect (AdminPanel.jsx:57-59)
AdminPanelMount ==
    /\ ~adminPanel.mounted
    /\ adminPanel' = FetchDataStarted([adminPanel EXCEPT !.mounted = TRUE], hospitalDb)
    /\ UNCHANGED <<hospitalDb, notAdmin>>

\* fetchData after Promise.all is fulfilled (AdminPanel.jsx:48-49, 52-54)
AdminFetchDataResolve ==
    /\ \E i \in DOMAIN adminPanel.fetches :
          adminPanel' = [adminPanel EXCEPT
                           !.hospitals = OrEmpty(WithData(adminPanel.fetches[i])),
                           !.loading = FALSE,
                           !.lastFetch = "fulfilled",
                           !.fetches = Without(@, i)]
    /\ UNCHANGED <<hospitalDb, notAdmin>>

\* fetchData after a request is rejected (AdminPanel.jsx:50-54)
AdminFetchDataReject ==
    /\ \E i \in DOMAIN adminPanel.fetches :
          adminPanel' = [adminPanel EXCEPT !.loading = FALSE, !.lastFetch = "rejected",
                                          !.toast = "Failed to fetch hospital data",
                                          !.fetches = Without(@, i)]
    /\ UNCHANGED <<hospitalDb, notAdmin>>

\* the Refresh button (AdminPanel.jsx:261)
AdminRefresh ==
    /\ PanelShown
    /\ Len(adminPanel.fetches) < MaxFetches
    /\ adminPanel' = FetchDataStarted(adminPanel, hospitalDb)
    /\ UNCHANGED <<hospitalDb, notAdmin>>

\* the rows of the table: the edit inputs and the save button are those of
\* the row whose id is editingHospital (AdminPanel.jsx:326, 341, 401)
Rows == {adminPanel.hospitals[i] : i \in DOMAIN adminPanel.hospitals}

EditedRowShown == \E h \in Rows : h.id = adminPanel.editingHospital

\* startEditing(hospital) (AdminPanel.jsx:61-68, 421-428)
StartEditing ==
    /\ \E h \in Rows :
          /\ h.id # adminPanel.editingHospital
          /\ adminPanel' = [adminPanel EXCEPT
                               !.editingHospital = h.id,
                               !.editValues =
                                   [available_beds |-> h.available_beds,
                                    icu_available |-> h.icu_available,
                                    emergency_capacity |-> h.emergency_capacity]]
    /\ UNCHANGED <<hospitalDb, notAdmin>>

\* cancelEditing (AdminPanel.jsx:70-73, 411-418)
CancelEditing ==
    /\ EditedRowShown
    /\ adminPanel' = [adminPanel EXCEPT !.editingHospital = 0,
                                        !.editValues = NoEditValues]
    /\ UNCHANGED <<hospitalDb, notAdmin>>

\* a value typed into an edit input (AdminPanel.jsx:345, 365)
TypeEditValue ==
    /\ EditedRowShown
    /\ adminPanel.typed < MaxTyped
    /\ \E field \in {"available_beds", "icu_available"} : \E str \in TypedValues :
          adminPanel' = [adminPanel EXCEPT !.editValues[field] = ParseInt(str),
                                          !.typed = @ + 1]
    /\ UNCHANGED <<hospitalDb, notAdmin>>

\* the emergency switch (AdminPanel.jsx:382-385)
ToggleEmergency ==
    /\ EditedRowShown
    /\ adminPanel.typed < MaxTyped
    /\ adminPanel' = [adminPanel EXCEPT !.editValues.emergency_capacity = ~@,
                                        !.typed = @ + 1]
    /\ UNCHANGED <<hospitalDb, notAdmin>>

\* the body of a request as it is sent
Body(values) == [f \in DOMAIN values |->
                    IF f = "emergency_capacity" THEN values[f] ELSE ToJson(values[f])]

\* saveChanges(hospital.id) up to its await (AdminPanel.jsx:75-78, 403-406)
SaveChanges ==
    /\ EditedRowShown
    /\ ~adminPanel.saving
    /\ adminPanel.saves < MaxSaves
    /\ adminPanel' = [adminPanel EXCEPT
                         !.saving = TRUE,
                         !.saves = @ + 1,
                         !.updates = Append(@, [id |-> adminPanel.editingHospital,
                                                body |-> Body(adminPanel.editValues)])]
    /\ UNCHANGED <<hospitalDb, notAdmin>>

\* the catch of saveChanges ending the edit session as well
UpdateFailedEndsEditing(a, i) ==
    [a EXCEPT !.updates = Without(@, i), !.saving = FALSE, !.editingHospital = 0,
              !.editValues = NoEditValues, !.toast = "Failed to update hospital"]

\* saveChanges after the request is rejected (AdminPanel.jsx:82-86)
UpdateFailed(a, i) ==
    [a EXCEPT !.updates = Without(@, i), !.saving = FALSE,
              !.toast = "Failed to update hospital"]

\* saveChanges after the request is fulfilled (AdminPanel.jsx:79-81, 84-86)
UpdateSucceeded(a, i, db) ==
    FetchDataStarted([a EXCEPT !.updates = Without(@, i), !.editingHospital = 0,
                               !.saving = FALSE,
                               !.toast = "Hospital updated successfully"], db)

SaveChangesResolve ==
    /\ \E i \in DOMAIN adminPanel.updates :
          /\ hospitalDb' = Persisted(hospitalDb, adminPanel.updates[i].id,
                                     adminPanel.updates[i].body)
          /\ adminPanel' = UpdateSucceeded(adminPanel, i, hospitalDb')
    /\ UNCHANGED notAdmin

SaveChangesReject ==
    /\ \E i \in DOMAIN adminPanel.updates : adminPanel' = UpdateFailed(adminPanel, i)
    /\ UNCHANGED <<hospitalDb, notAdmin>>

\* the Add Hospital button (AdminPanel.jsx:142-148)
OpenAddDialog ==
    /\ PanelShown
    /\ ~adminPanel.showAddDialog
    /\ adminPanel' = [adminPanel EXCEPT !.showAddDialog = TRUE]
    /\ UNCHANGED <<hospitalDb, notAdmin>>

\* the dialog's Cancel button (AdminPanel.jsx:253)
CloseAddDialog ==
    /\ PanelShown
    /\ adminPanel.showAddDialog
    /\ adminPanel' = [adminPanel EXCEPT !.showAddDialog = FALSE]
    /\ UNCHANGED <<hospitalDb, notAdmin>>

\* a value typed into a bed input of the dialog (AdminPanel.jsx:206-247)
TypeNewHospital ==
    /\ PanelShown
    /\ adminPanel.showAddDialog
    /\ adminPanel.typed < MaxTyped
    /\ \E field \in DOMAIN BlankHospital : \E str \in TypedValues :
          adminPanel' = [adminPanel EXCEPT !.newHospital[field] = str, !.typed = @ + 1]
    /\ UNCHANGED <<hospitalDb, notAdmin>>

\* hospitalData (AdminPanel.jsx:91-100)
HospitalData(new) == [f \in DOMAIN new |-> ParseInt(new[f])]

\* addNewHospital up to its await (AdminPanel.jsx:89-102, 254)
AddNewHospital ==
    /\ PanelShown
    /\ adminPanel.showAddDialog
    /\ adminPanel.saves < MaxSaves
    /\ adminPanel' = [adminPanel EXCEPT
                         !.saves = @ + 1,
                         !.posts = Append(@, Body(HospitalData(adminPanel.newHospital)))]
    /\ UNCHANGED <<hospitalDb, notAdmin>>

\* addNewHospital after the request is fulfilled (AdminPanel.jsx:103-110)
AddNewHospitalResolve ==
    /\ \E i \in DOMAIN adminPanel.posts :
          /\ hospitalDb' = Created(hospitalDb, adminPanel.posts[i])
          /\ adminPanel' = FetchDataStarted(
                               [adminPanel EXCEPT !.posts = Without(@, i),
                                                  !.toast = "Hospital added successfully",
                                                  !.showAddDialog = FALSE,
                                                  !.newHospital = BlankHospital],
                               hospitalDb')
    /\ UNCHANGED notAdmin

\* addNewHospital after the request is rejected (AdminPanel.jsx:111-113)
AddNewHospitalReject ==
    /\ \E i \in DOMAIN adminPanel.posts :
          adminPanel' = [adminPanel EXCEPT !.posts = Without(@, i),
                                          !.toast = "Failed to add hospital"]
    /\ UNCHANGED <<hospitalDb, notAdmin>>

(***************************************************************************)
(* SeismicMonitor (part_003:450-482, 553-578): the filters, the list and   *)
(* the requests for it in flight, each with the filters it was issued for. *)
(* The server answers a request with the events of its catalogue that the  *)
(* request's min_magnitude and days select.                                *)
(***************************************************************************)
MaxInFlight == 2    \* requests for the events in flight at once

\* the SelectItem values offered (part_003:558-561, 569-572)
Magnitudes == {"2.5", "4.0"}

DaysOffered == {"7", "1"}

\* the numbers the query strings stand for, magnitudes in tenths
Tenths(str) == IF str = "4.0" THEN 40 ELSE 25

DaysOf(str) == IF str = "1" THEN 1 ELSE 7

\* what the server holds: magnitude in tenths, age in days
SeismicCatalogue ==
    <<[id |-> 1, magnitude |-> 45, age |-> 0],
      [id |-> 2, magnitude |-> 30, age |-> 0],
      [id |-> 3, magnitude |-> 45, age |-> 3]>>

SelectedBy(e, query) ==
    e.magnitude >= Tenths(query.min_magnitude) /\ e.age <= DaysOf(query.days)

\* GET /seismic/events?min_magnitude=..&days=..
EventsFor(query) ==
    LET Test(e) == SelectedBy(e, query) IN SelectSeq(SeismicCatalogue, Test)

\* useState initial values (part_003:451-459); no request in flight
SeismicMonitorUnmounted ==
    [mounted |-> FALSE, events |-> <<>>, loading |-> TRUE, minMagnitude |-> "2.5",
     days |-> "7", fetches |-> <<>>, toast |-> "none"]

notSeismic == <<feed, dashVars, appVars, nearVars, floodMonitor, heatWaveMonitor,
                hospitalLocator, adminPanel, activeAlerts>>

\* fetchData up to its await, with the filters of the render that calls it
\* (part_003:461-468)
SeismicFetchStarted(sm) ==
    [sm EXCEPT !.loading = TRUE,
               !.fetches = Append(@, [min_magnitude |-> sm.minMagnitude,
                                      days |-> sm.days])]

\* the effect at mount (part_003:480-482)
SeismicMonitorMount ==
    /\ ~seismicMonitor.mounted
    /\ seismicMonitor' = SeismicFetchStarted([seismicMonitor EXCEPT !.mounted = TRUE])
    /\ UNCHANGED notSeismic

\* a magnitude is selected and the effect runs (part_003:553, 480-482)
SetMinMagnitude ==
    /\ seismicMonitor.mounted
    /\ Len(seismicMonitor.fetches) < MaxInFlight
    /\ \E m \in Magnitudes \ {seismicMonitor.minMagnitude} :
          seismicMonitor' =
              SeismicFetchStarted([seismicMonitor EXCEPT !.minMagnitude = m])
    /\ UNCHANGED notSeismic

\* a period is selected and the effect runs (part_003:564, 480-482)
SetDays ==
    /\ seismicMonitor.mounted
    /\ Len(seismicMonitor.fetches) < MaxInFlight
    /\ \E d \in DaysOffered \ {seismicMonitor.days} :
          seismicMonitor' = SeismicFetchStarted([seismicMonitor EXCEPT !.days = d])
    /\ UNCHANGED notSeismic

\* the Refresh button (part_003:575)
SeismicRefresh ==
    /\ seismicMonitor.mounted
    /\ Len(seismicMonitor.fetches) < MaxInFlight
    /\ seismicMonitor' = SeismicFetchStarted(seismicMonitor)
    /\ UNCHANGED notSeismic

\* fetchData after Promise.all is fulfilled (part_003:469-471, 475-477)
SeismicFetchDataResolve ==
    /\ \E i \in DOMAIN seismicMonitor.fetches :
          seismicMonitor' =
              [seismicMonitor EXCEPT
                 !.events = OrEmpty(WithData(EventsFor(seismicMonitor.fetches[i]))),
                 !.loading = FALSE,
                 !.fetches = Without(@, i)]
    /\ UNCHANGED notSeismic

\* fetchData after a request is rejected (part_003:472-477)
SeismicFetchDataReject ==
    /\ \E i \in DOMAIN seismicMonitor.fetches :
          seismicMonitor' = [seismicMonitor EXCEPT
                               !.loading = FALSE,
                               !.toast = "Failed to fetch seismic data",
                               !.fetches = Without(@, i)]
    /\ UNCHANGED notSeismic

(***************************************************************************)
(* The redesigned Dashboard's activeAlerts (Dashboard.jsx:565-586), a memo *)
(* of heatAlerts and floodAlerts, which its fetchMapData sets as the first *)
(* Dashboard's does (Dashboard.jsx:531-550).                               *)
(***************************************************************************)
MaxActive == 3      \* alerts in each of the two lists

ActiveLimit == 4

\* region.split(sep)[0] for the regions of the catalogue
SplitFirst(region, sep) ==
    CASE region = "Sicilia, IT" /\ sep = "," -> "Sicilia"
      [] region = "Po - Nord" /\ sep = " - " -> "Po"
      [] OTHER -> region

\* a.region?.split(sep)[0] || fallback
Title(a, sep, fallback) ==
    IF "region" \notin DOMAIN a THEN fallback
    ELSE IF SplitFirst(a.region, sep) = "" THEN fallback
    ELSE SplitFirst(a.region, sep)

\* the entry pushed for a heat alert (Dashboard.jsx:569-573)
HeatEntry(a) ==
    [type |-> "heat", title |-> Title(a, ",", "Heat Alert"),
     detail |-> <<a.temperature, a.duration_hours>>]

\* the entry pushed for a flood alert (Dashboard.jsx:578-582)
FloodEntry(a) ==
    [type |-> "flood", title |-> Title(a, " - ", "Flood Alert"),
     detail |-> <<a.water_level>>]

\* the test of both forEach bodies (Dashboard.jsx:568, 577)
IsActive(a) == "risk_level" \in DOMAIN a /\ a.risk_level \in {"high", "critical"}

\* what forEach pushes for the heat alerts
HeatPushed(heat) ==
    LET kept == SelectSeq(heat, IsActive) IN [i \in DOMAIN kept |-> HeatEntry(kept[i])]

\* what forEach pushes for the flood alerts
FloodPushed(flood) ==
    LET kept == SelectSeq(flood, IsActive) IN [i \in DOMAIN kept |-> FloodEntry(kept[i])]

\* alerts.slice(0, n)
SliceFromZero(alerts, n) == SubSeq(alerts, 1, Min(n, Len(alerts)))

\* the flood alerts pushed before the heat alerts
ActiveAlertsFloodFirst(heat, flood) ==
    SliceFromZero(FloodPushed(flood) \o HeatPushed(heat), ActiveLimit)

\* activeAlerts (Dashboard.jsx:565-586)
ActiveAlerts(heat, flood) ==
    SliceFromZero(HeatPushed(heat) \o FloodPushed(flood), ActiveLimit)

ActiveHeatRecords ==
    {Event("high", 1) @@ [region |-> "Sicilia, IT", temperature |-> 41, duration_hours |-> 6],
     Event("critical", 1) @@ [temperature |-> 43, duration_hours |-> 12],
     Event("low", 1) @@ [region |-> "Puglia", temperature |-> 33, duration_hours |-> 2]}

ActiveFloodRecords ==
    {Event("critical", 1) @@ [region |-> "Po - Nord", water_level |-> 3],
     Event("high", 1) @@ [region |-> "", water_level |-> 2],
     Event("moderate", 1) @@ [region |-> "Veneto", water_level |-> 1]}

\* a render whose heatAlerts or floodAlerts give another list
\* (Dashboard.jsx:565-586)
RenderActiveAlerts ==
    /\ activeAlerts # ActiveAlerts(heatAlerts, floodAlerts)
    /\ activeAlerts' = ActiveAlerts(heatAlerts, floodAlerts)
    /\ UNCHANGED <<feed, dashVars, appVars, nearVars, floodMonitor, heatWaveMonitor,
                   hospitalLocator, adminPanel, seismicMonitor>>

\* no page but the Dashboard has been opened
PagesIdle ==
    /\ floodMonitor = FloodMonitorUnmounted
    /\ heatWaveMonitor = HeatWaveMonitorUnmounted
    /\ hospitalLocator = HospitalLocatorInit
    /\ adminPanel = AdminPanelUnmounted
    /\ seismicMonitor = SeismicMonitorUnmounted
    /\ activeAlerts = <<>>

(***************************************************************************)
(* The proximity search is not called in Spec.                             *)
(***************************************************************************)
NoCall == [op |-> "none"]

NearIdle == hospitalDb = <<>> /\ nearCall = NoCall

(***************************************************************************)
(* Spec: the Dashboard mounted over every feed of at most MaxEvents        *)
(* events.                                                                 *)
(***************************************************************************)
Init ==
    /\ \E k \in Lengths(MaxEvents) :
          feed \in FeedsOver(SeismicRecords, FloodRecords, HeatRecords, k)
    /\ DashInit
    /\ AppInit
    /\ PagesIdle
    /\ NearIdle

Next ==
    \/ FetchMapDataStart
    \/ FetchMapDataResolve
    \/ FetchMapDataReject
    \/ Render

Spec == Init /\ [][Next]_vars

(***************************************************************************)
(* SpecRefresh: the Dashboard under App's polling, while the backend's     *)
(* feed grows by up to MaxFeed events.                                     *)
(***************************************************************************)
MaxFeed == 2

Published(kind) ==
    {Event(r, 1) @@ (CASE kind = "seismic" -> SeismicPayload
                       [] kind = "flood" -> FloodPayload
                       [] OTHER -> HeatPayload) : r \in {"high", "low"}}

\* a new event appears upstream
UpstreamPublish ==
    /\ Len(feed.seismic) + Len(feed.flood) + Len(feed.heat) < MaxFeed
    /\ \E kind \in {"seismic", "flood", "heat"} : \E e \in Published(kind) :
          feed' = [feed EXCEPT ![kind] = Append(@, e)]
    /\ UNCHANGED <<dashVars, appVars, nearVars, pageVars>>

InitRefresh ==
    /\ feed = NoDeps
    /\ DashInit
    /\ AppInit
    /\ PagesIdle
    /\ NearIdle

NextRefresh ==
    \/ Next
    \/ AppMount
    \/ IntervalTick
    \/ OnRefresh
    \/ FetchDashboardDataResolve
    \/ FetchDashboardDataReject
    \/ UpstreamPublish

SpecRefresh == InitRefresh /\ [][NextRefresh]_vars

(***************************************************************************)
(* SpecSnapshot: the Dashboard mounted over a feed of at most one event,   *)
(* beside a FloodMonitor that is mounted, polls and is unmounted.          *)
(***************************************************************************)
InitSnapshot ==
    /\ \E k \in Lengths(1) :
          feed \in FeedsOver(SeismicRecords, FloodRecords, HeatRecords, k)
    /\ DashInit
    /\ AppInit
    /\ PagesIdle
    /\ NearIdle

NextSnapshot ==
    \/ FetchMapDataStart
    \/ FetchMapDataResolve
    \/ FetchMapDataReject
    \/ Render
    \/ FloodMonitorMount
    \/ FloodMonitorIntervalTick
    \/ FloodMonitorFetchDataResolve
    \/ FloodMonitorFetchDataReject
    \/ FloodMonitorUnmount

SpecSnapshot == InitSnapshot /\ [][NextSnapshot]_vars

(***************************************************************************)
(* SpecLocator: Find Near Me over a backend with at most two hospitals.    *)
(***************************************************************************)
InitLocator ==
    /\ hospitalDb \in {HospitalsAt(lats) : lats \in SeqsUpTo(PositionLats, 2)}
    /\ nearCall = NoCall
    /\ feed = NoDeps
    /\ DashInit
    /\ AppInit
    /\ PagesIdle

NextLocator ==
    \/ FindNearMe
    \/ FindNearMeUnsupported
    \/ PositionSuccess
    \/ PositionError
    \/ FindNearMeResolve
    \/ FindNearMeReject

SpecLocator == InitLocator /\ [][NextLocator]_vars

\* the admin panel over a store of two hospitals: the list, its refresh and
\* the edits
InitAdmin ==
    /\ hospitalDb = AdminHospitals
    /\ nearCall = NoCall
    /\ feed = NoDeps
    /\ DashInit
    /\ AppInit
    /\ PagesIdle

NextAdmin ==
    \/ AdminPanelMount
    \/ AdminFetchDataResolve
    \/ AdminFetchDataReject
    \/ AdminRefresh
    \/ StartEditing
    \/ CancelEditing
    \/ TypeEditValue
    \/ ToggleEmergency
    \/ SaveChanges
    \/ SaveChangesResolve
    \/ SaveChangesReject

SpecAdmin == InitAdmin /\ [][NextAdmin]_vars

\* what the panel sends: the edits and the Add Hospital dialog
NextSubmit ==
    \/ AdminPanelMount
    \/ AdminFetchDataResolve
    \/ AdminFetchDataReject
    \/ StartEditing
    \/ TypeEditValue
    \/ SaveChanges
    \/ SaveChangesResolve
    \/ SaveChangesReject
    \/ OpenAddDialog
    \/ CloseAddDialog
    \/ TypeNewHospital
    \/ AddNewHospital
    \/ AddNewHospitalResolve
    \/ AddNewHospitalReject

SpecSubmit == InitAdmin /\ [][NextSubmit]_vars

\* the hospital locator's list, its filter and Find Near Me, over at most
\* two named hospitals
InitFilter ==
    /\ hospitalDb \in {HospitalsNamed(names) : names \in SeqsUpTo(HospitalNames, 2)}
    /\ nearCall = NoCall
    /\ feed = NoDeps
    /\ DashInit
    /\ AppInit
    /\ PagesIdle

NextFilter ==
    \/ HospitalLocatorMount
    \/ HospitalLocatorRefresh
    \/ LocatorFetchDataResolve
    \/ LocatorFetchDataReject
    \/ SetSearchTerm
    \/ SetRegionFilter
    \/ FindNearMe
    \/ PositionSuccess
    \/ FindNearMeResolve
    \/ FindNearMeReject

SpecFilter == InitFilter /\ [][NextFilter]_vars

\* the redesigned Dashboard mounted over feeds with up to MaxActive heat and
\* MaxActive flood alerts
InitActive ==
    /\ \E heat \in SeqsUpTo(ActiveHeatRecords, MaxActive) :
       \E flood \in SeqsUpTo(ActiveFloodRecords, MaxActive) :
       \E seismic \in {<<>>, <<Event("critical", 1) @@ SeismicPayload>>} :
          feed = [seismic |-> seismic, flood |-> flood, heat |-> heat]
    /\ DashInit
    /\ AppInit
    /\ PagesIdle
    /\ NearIdle

NextActive ==
    \/ FetchMapDataStart
    \/ FetchMapDataResolve
    \/ FetchMapDataReject
    \/ RenderActiveAlerts

SpecActive == InitActive /\ [][NextActive]_vars

\* the predictions of the two monitors
NextPrediction ==
    \/ FloodMonitorMount
    \/ FloodMonitorIntervalTick
    \/ FloodMonitorFetchDataResolve
    \/ FloodMonitorFetchDataReject
    \/ FloodMonitorUnmount
    \/ FloodGeneratePrediction
    \/ FloodPredictionResolve
    \/ FloodPredictionReject
    \/ HeatWaveMonitorMount
    \/ HeatWaveMonitorIntervalTick
    \/ HeatWaveMonitorFetchDataResolve
    \/ HeatWaveMonitorFetchDataReject
    \/ HeatWaveMonitorUnmount
    \/ HeatGeneratePrediction
    \/ HeatPredictionResolve
    \/ HeatPredictionReject

SpecPrediction == InitAdmin /\ [][NextPrediction]_vars

\* the seismic monitor and its filters
NextSeismic ==
    \/ SeismicMonitorMount
    \/ SetMinMagnitude
    \/ SetDays
    \/ SeismicRefresh
    \/ SeismicFetchDataResolve
    \/ SeismicFetchDataReject

SpecSeismic == InitAdmin /\ [][NextSeismic]_vars

(***************************************************************************)
(* SpecPolling: App and the two monitors mounted, polling and unmounted.   *)
(***************************************************************************)
NextPolling ==
    \/ AppMount
    \/ IntervalTick
    \/ OnRefresh
    \/ FetchDashboardDataResolve
    \/ FetchDashboardDataReject
    \/ AppUnmount
    \/ FloodMonitorMount
    \/ FloodMonitorIntervalTick
    \/ FloodMonitorFetchDataResolve
    \/ FloodMonitorFetchDataReject
    \/ FloodMonitorUnmount
    \/ HeatWaveMonitorMount
    \/ HeatWaveMonitorIntervalTick
    \/ HeatWaveMonitorFetchDataResolve
    \/ HeatWaveMonitorFetchDataReject
    \/ HeatWaveMonitorUnmount

SpecPolling == InitRefresh /\ [][NextPolling]_vars

\* The timer keeps firing, requests are answered, and summary requests are
\* answered successfully again and again; a pending render is done.
SpecRefreshFair ==
    /\ SpecRefresh
    /\ WF_vars(AppMount)
    /\ WF_vars(IntervalTick)
    /\ WF_vars(FetchDashboardDataResolve \/ FetchDashboardDataReject)
    /\ SF_vars(FetchDashboardDataResolve)
    /\ WF_vars(FetchMapDataStart)
    /\ WF_vars(FetchMapDataResolve \/ FetchMapDataReject)
    /\ WF_vars(Render)

(***************************************************************************)
(* The calls of the proximity search.                                      *)
(***************************************************************************)
\* the endpoint answers a request for the k hospitals nearest to lat
NearbyRequest ==
    /\ \E lat \in Lats : \E k \in (0 - 1)..MaxK :
          nearCall' = [op |-> "nearest", lat |-> lat, k |-> k,
                       result |-> Nearest(lat, hospitalDb, k)]
    /\ UNCHANGED <<hospitalDb, feed, dashVars, appVars, pageVars>>

\* findNearbyHospitals(lat, lon): the response's data (part_002:86-89)
FindNearbyHospitalsResolve ==
    /\ \E lat \in Lats :
          nearCall' = [op |-> "findNearbyHospitals", lat |-> lat, k |-> NearbyLimit,
                       result |-> Nearest(lat, hospitalDb, NearbyLimit)]
    /\ UNCHANGED <<hospitalDb, feed, dashVars, appVars, pageVars>>

\* findNearbyHospitals(lat, lon): [] when the request fails (part_002:90-93)
FindNearbyHospitalsReject ==
    /\ \E lat \in Lats :
          nearCall' = [op |-> "findNearbyHospitalsFailed", lat |-> lat, k |-> NearbyLimit,
                       result |-> <<>>]
    /\ UNCHANGED <<hospitalDb, feed, dashVars, appVars, pageVars>>

InitNearest ==
    /\ hospitalDb \in {HospitalsAt(lats) : lats \in SeqsUpTo(Lats, MaxHospitals)}
    /\ nearCall = NoCall
    /\ feed = NoDeps
    /\ DashInit
    /\ AppInit
    /\ PagesIdle

NextNearest ==
    \/ NearbyRequest
    \/ FindNearbyHospitalsResolve
    \/ FindNearbyHospitalsReject

SpecNearest == InitNearest /\ [][NextNearest]_vars

\* the call answered by the search itself
Answered == nearCall.op \in {"nearest", "findNearbyHospitals"}

\* C9 as stated: for every hospital list, reference point and k, the result
\* of nearest has length min(k, |H|).
C9_LengthIsMin == Answered => Len(nearCall.result) = Min(nearCall.k, Len(hospitalDb))

\* C9 as amended: the result of nearest has length min(k, |H|) for k >= 0
\* and is empty for k < 0.
C9_LengthIsMinOfNonNegative ==
    Answered => Len(nearCall.result) = Min(Max(nearCall.k, 0), Len(hospitalDb))

\* C9 witness: a search for fewer hospitals than there are has been answered
\* with exactly that many.
C9_Witness ==
    /\ Answered
    /\ nearCall.k > 0
    /\ nearCall.k < Len(hospitalDb)
    /\ Len(nearCall.result) = nearCall.k

\* C10: in the result of nearest the distances to the reference never
\* decrease from one hospital to the next, and no hospital left out is
\* strictly closer to the reference than a returned one.
C10_NearestFirst ==
    Answered =>
      LET r == nearCall.result
          lat == nearCall.lat
      IN /\ \A p \in 1..(Len(r) - 1) : Distance(lat, r[p]) <= Distance(lat, r[p + 1])
         /\ \A p \in DOMAIN r : r[p] \in Elements(hospitalDb)
         /\ nearCall.k > 0 =>
               \A i \in DOMAIN hospitalDb :
                 (\A p \in DOMAIN r : r[p] # hospitalDb[i]) =>
                   \A p \in DOMAIN r :
                     Distance(lat, hospitalDb[i]) >= Distance(lat, r[p])

\* C10 witness: hospitals at 10 km, 15 km and 5 km and k = 2 give the one at
\* 5 km, then the one at 10 km.
C10_Witness ==
    /\ nearCall.op = "nearest"
    /\ nearCall.k = 2
    /\ Len(hospitalDb) = 3
    /\ Distance(nearCall.lat, hospitalDb[1]) = 10
    /\ Distance(nearCall.lat, hospitalDb[2]) = 15
    /\ Distance(nearCall.lat, hospitalDb[3]) = 5
    /\ nearCall.result = <<hospitalDb[3], hospitalDb[1]>>

\* C11: nearest returns the empty list when k <= 0, whatever the hospitals,
\* and when there is no hospital, whatever k; every call has a result.
C11_EmptyForNoKOrNoHospital ==
    /\ nearCall.op = "nearest" => "result" \in DOMAIN nearCall
    /\ Answered /\ (nearCall.k <= 0 \/ hospitalDb = <<>>) => nearCall.result = <<>>

\* C11 witness: a search with k <= 0 over a list that holds hospitals was
\* answered with the empty list.
C11_Witness ==
    /\ nearCall.op = "nearest"
    /\ nearCall.k <= 0
    /\ hospitalDb # <<>>
    /\ nearCall.result = <<>>

\* C12: hospitals of the result at equal distance from the reference stand in
\* their input order.
C12_TiesKeepInputOrder ==
    Answered =>
      \A p, q \in DOMAIN nearCall.result :
        /\ p < q
        /\ Distance(nearCall.lat, nearCall.result[p]) = Distance(nearCall.lat, nearCall.result[q])
        => nearCall.result[p].id < nearCall.result[q].id

\* C12 witness: the result holds the second and the third hospital of the
\* list, one north and one south of the reference at the same distance,
\* after a nearer first one.
C12_Witness ==
    /\ nearCall.op = "findNearbyHospitals"
    /\ Len(nearCall.result) = 3
    /\ nearCall.result[2].id = 2
    /\ nearCall.result[3].id = 3
    /\ nearCall.result[2].latitude # nearCall.result[3].latitude
    /\ Distance(nearCall.lat, nearCall.result[2]) = Distance(nearCall.lat, nearCall.result[3])

\* the hospitals located exactly at the reference point
AtReference == {i \in DOMAIN hospitalDb : hospitalDb[i].latitude = nearCall.lat}

\* C13: the distance between a hospital and a reference point of identical
\* coordinates is 0 km, and with such a hospital in the list the first of
\* the result is one: the first of them in the list.
C13_ZeroDistanceRanksFirst ==
    Answered =>
      /\ \A i \in AtReference : Distance(nearCall.lat, hospitalDb[i]) = 0
      /\ nearCall.k > 0 /\ AtReference # {} =>
            /\ nearCall.result # <<>>
            /\ nearCall.result[1].id \in AtReference
            /\ \A i \in AtReference : nearCall.result[1].id <= i

\* C13 witness: the hospital at the reference point is the last of three in
\* the list, the others lie south of it, and it is the first of the result.
C13_Witness ==
    /\ nearCall.op = "nearest"
    /\ nearCall.k = 1
    /\ Len(hospitalDb) = 3
    /\ AtReference = {3}
    /\ hospitalDb[1].latitude < nearCall.lat
    /\ hospitalDb[2].latitude < nearCall.lat
    /\ nearCall.result = <<hospitalDb[3]>>

(***************************************************************************)
(* SpecOrder: the same component over feeds of up to MaxAlerts events that *)
(* all pass the filter, with or without a timestamp.                       *)
(***************************************************************************)
MaxAlerts == 4

Shown == {Event(r, t) : r \in Urgent, t \in 1..MaxTime}

ShownRecords(payload) ==
    {e @@ payload : e \in Shown \cup {DropField(e, "timestamp") : e \in Shown}}

InitOrder ==
    /\ \E k \in Lengths(MaxAlerts) :
          feed \in FeedsOver(ShownRecords(SeismicPayload), ShownRecords(FloodPayload),
                             ShownRecords(HeatPayload), k)
    /\ DashInit
    /\ AppInit
    /\ PagesIdle
    /\ NearIdle

SpecOrder == InitOrder /\ [][Next]_vars

(***************************************************************************)
(* Properties of the aggregated feed.  The event an alert was made from is *)
(* the src-th element of the list of its type among the dependencies the   *)
(* feed was computed from.                                                 *)
(***************************************************************************)
Kinds == {"seismic", "flood", "heat"}

SourceList(kind) == memoDeps[kind]

SourceOf(a) == SourceList(a.type)[a.src]

HasSource(a) == a.type \in Kinds /\ a.src \in DOMAIN SourceList(a.type)

IsUrgent(e) == "risk_level" \in DOMAIN e /\ e.risk_level \in {"high", "critical"}

UrgentAt(kind) == {i \in DOMAIN SourceList(kind) : IsUrgent(SourceList(kind)[i])}

Positions(kind, i) ==
    {p \in DOMAIN allAlerts : allAlerts[p].type = kind /\ allAlerts[p].src = i}

IsWellFormed(e) == {"risk_level", "timestamp", "latitude", "longitude"} \subseteq DOMAIN e

Rendered == mapFetch = "fulfilled" /\ memoDeps = Deps

\* C1: no alert of the feed comes from an event whose risk_level is not "high"
\* or "critical" (moderate, low, missing and unrecognized ones are left out),
\* and whatever the events are, the aggregation has a result when it is due.
C1_OnlyHighOrCritical ==
    /\ \A p \in DOMAIN allAlerts :
          HasSource(allAlerts[p]) /\ IsUrgent(SourceOf(allAlerts[p]))
    /\ memoDeps # Deps => AllAlertsMemo(seismicEvents, floodAlerts, heatAlerts) # {}

\* C1 witness: a feed was computed from lists that hold a moderate, a low, an
\* unrecognized or a severity-less event beside one that is shown.
C1_Witness ==
    /\ Rendered
    /\ allAlerts # <<>>
    /\ \E kind \in Kinds : \E i \in DOMAIN SourceList(kind) :
          ~IsUrgent(SourceList(kind)[i])

\* C3: the feed holds exactly one alert for each high or critical event of the
\* three lists and nothing else (no truncation), so it is empty exactly when
\* no event passes the filter, and it is empty for three empty lists.
C3_OneAlertPerUrgentEvent ==
    /\ \A kind \in Kinds : \A i \in UrgentAt(kind) : Cardinality(Positions(kind, i)) = 1
    /\ Len(allAlerts) = Cardinality(UrgentAt("seismic")) + Cardinality(UrgentAt("flood"))
                          + Cardinality(UrgentAt("heat"))
    /\ (allAlerts = <<>>) = (\A kind \in Kinds : UrgentAt(kind) = {})
    /\ memoDeps = NoDeps => allAlerts = <<>>

\* C3 witness: a feed of two alerts, computed from two high or critical events.
C3_Witness ==
    /\ Rendered
    /\ Len(allAlerts) = 2
    /\ Cardinality(UrgentAt("seismic")) + Cardinality(UrgentAt("flood"))
          + Cardinality(UrgentAt("heat")) = 2

\* C7: each alert is the normalized view of its source event: its type is the
\* list it comes from, its level the event's risk_level, its time the event's
\* timestamp; a flood alert's details are "Evacuation Advised" exactly when
\* evacuation_advised is true and the water level otherwise; a seismic alert
\* carries the magnitude in its title and the depth in its details; a heat
\* alert carries temperature and feels-like in its details.
C7_NormalizedView ==
    \A p \in DOMAIN allAlerts :
        LET a == allAlerts[p] IN
        /\ HasSource(a)
        /\ LET e == SourceOf(a) IN
           /\ "risk_level" \in DOMAIN e /\ a.level = e.risk_level
           /\ "timestamp" \in DOMAIN e => a.time.valid /\ a.time.ms = e.timestamp
           /\ a.type = "flood" =>
                 /\ (a.details.text = "Evacuation Advised")
                       = ("evacuation_advised" \in DOMAIN e /\ e.evacuation_advised = TRUE)
                 /\ a.details.text # "Evacuation Advised" =>
                       a.details = [text |-> "Water Level", m |-> e.water_level]
                 /\ a.location = e.region
           /\ a.type = "seismic" =>
                 /\ a.title = [text |-> "Earthquake", magnitude |-> e.magnitude]
                 /\ a.details = [text |-> "Depth", km |-> e.depth]
                 /\ a.location = e.location
           /\ a.type = "heat" =>
                 /\ a.details = [text |-> "Feels like", temperature |-> e.temperature,
                                 feels_like |-> e.feels_like]
                 /\ a.location = e.region

\* C7 witness: the feed shows a flood alert with evacuation advised beside a
\* seismic or heat alert.
C7_Witness ==
    /\ Rendered
    /\ \E p, q \in DOMAIN allAlerts :
          /\ allAlerts[p].type = "flood"
          /\ allAlerts[p].details.text = "Evacuation Advised"
          /\ allAlerts[q].type # "flood"

\* C8: computing the feed changes nothing but the feed: a step that
\* recomputes it leaves the three input lists, element for element, and the
\* rest of the component's state as they were.
C8_NoSideEffects ==
    [][memoDeps' # memoDeps =>
         /\ seismicEvents' = seismicEvents
         /\ floodAlerts' = floodAlerts
         /\ heatAlerts' = heatAlerts
         /\ UNCHANGED <<feed, hospitals, mapLoading, mapFetch, appVars, nearVars, pageVars>>]_vars

\* C8 witness: a feed has been computed from two heat alerts whose order the
\* sort changes.
C8_Witness ==
    /\ Rendered
    /\ Len(heatAlerts) = 2
    /\ Len(allAlerts) = 2
    /\ allAlerts[1].src = 2

(***************************************************************************)
(* The order of the feed.                                                  *)
(***************************************************************************)
\* the fixed order critical(0) < high(1) < moderate(2) < low(3)
Rank(level) ==
    CASE level = "critical" -> 0
      [] level = "high" -> 1
      [] level = "moderate" -> 2
      [] OTHER -> 3

\* x >= y on Dates: false when either is an Invalid Date
TimeGeq(x, y) == x.valid /\ y.valid /\ x.ms >= y.ms

SameInstant(x, y) == x.valid /\ y.valid /\ x.ms = y.ms

KindOrder(kind) == CASE kind = "seismic" -> 1 [] kind = "flood" -> 2 [] OTHER -> 3

InOrder(a, b) ==
    /\ Rank(a.level) <= Rank(b.level)
    /\ Rank(a.level) = Rank(b.level) => TimeGeq(a.time, b.time)

\* C2: any two consecutive alerts A, B of the feed have rank(A) <= rank(B),
\* and A.time >= B.time when the ranks are equal; every critical alert comes
\* before every high one.
C2_SeverityThenRecency ==
    /\ \A p \in 1..(Len(allAlerts) - 1) : InOrder(allAlerts[p], allAlerts[p + 1])
    /\ \A p, q \in DOMAIN allAlerts :
          allAlerts[p].level = "critical" /\ allAlerts[q].level = "high" => p < q

\* C4: alerts of equal severity and exactly equal time stand in concatenation
\* order: seismic before flood before heat, and in input order within a list.
C4_StableTies ==
    \A p, q \in DOMAIN allAlerts :
        LET a == allAlerts[p]
            b == allAlerts[q]
        IN p < q /\ a.level = b.level /\ SameInstant(a.time, b.time) =>
             \/ KindOrder(a.type) < KindOrder(b.type)
             \/ a.type = b.type /\ a.src < b.src

\* C5: a malformed record (no severity, no timestamp or no coordinates) is
\* skipped: it is not in the feed, every well-formed high or critical event
\* is, and the alerts are in severity-then-recency order.
C5_MalformedSkipped ==
    /\ \A p \in DOMAIN allAlerts :
          HasSource(allAlerts[p]) /\ IsWellFormed(SourceOf(allAlerts[p]))
    /\ \A kind \in Kinds : \A i \in UrgentAt(kind) :
          IsWellFormed(SourceList(kind)[i]) => Positions(kind, i) # {}
    /\ \A p, q \in DOMAIN allAlerts :
          /\ p < q
          /\ HasSource(allAlerts[p]) /\ IsWellFormed(SourceOf(allAlerts[p]))
          /\ HasSource(allAlerts[q]) /\ IsWellFormed(SourceOf(allAlerts[q]))
          => InOrder(allAlerts[p], allAlerts[q])

\* Over well-formed events the feed is ordered by severity, then recency,
\* and ties keep the concatenation order.
WellFormedFeedOrdered ==
    (\A kind \in Kinds : \A i \in DOMAIN SourceList(kind) :
        "timestamp" \in DOMAIN SourceList(kind)[i])
      => C2_SeverityThenRecency /\ C4_StableTies

(***************************************************************************)
(* The feed under App's polling.                                           *)
(***************************************************************************)
\* Once fetched, the lists the feed is computed from never change again:
\* no poll and no click starts fetchMapData.
ListsFetchedOnce ==
    [][mapFetch = "fulfilled" => mapFetch' = "fulfilled" /\ Deps' = Deps]_vars

\* a high or critical event upstream is not in the lists the Dashboard holds
Stale ==
    /\ mapFetch = "fulfilled"
    /\ \E kind \in Kinds : \E i \in DOMAIN feed[kind] :
          IsUrgent(feed[kind][i]) /\ i \notin DOMAIN Deps[kind]

\* C6: the aggregation is re-run on every periodic refresh: with the timer
\* firing and refreshes completing successfully again and again, a high or
\* critical event that newly appears upstream eventually is in the lists the
\* feed is computed from, without a remount.
C6_UpstreamEventReachesFeed == Stale ~> ~Stale

(***************************************************************************)
(* The polling lifecycle.                                                  *)
(***************************************************************************)
\* a component's timer is live with the given delay exactly while it is
\* mounted, and an unmounted component has no request that can reach it
TimerWhileMounted(mounted, timer, pending, delay) ==
    /\ mounted => timer = delay
    /\ ~mounted => timer = 0 /\ pending = 0

\* C14: App fetches the summary once at mount and has a 60 s timer while it
\* is mounted, the flood and heat-wave monitors fetch once at mount and have
\* a 300 s timer while mounted; after the unmount the timer is cleared and no
\* fetch is issued.
C14_PollingLifecycle ==
    /\ [](/\ TimerWhileMounted(appMounted, interval, summaryPending, 60000)
          /\ TimerWhileMounted(floodMonitor.mounted, floodMonitor.interval,
                               floodMonitor.pending, 300000)
          /\ TimerWhileMounted(heatWaveMonitor.mounted, heatWaveMonitor.interval,
                               heatWaveMonitor.pending, 300000))
    /\ [][/\ ~appMounted /\ appMounted' => summaryPending' = 1
          /\ ~floodMonitor.mounted /\ floodMonitor'.mounted => floodMonitor'.pending = 1
          /\ ~heatWaveMonitor.mounted /\ heatWaveMonitor'.mounted
                => heatWaveMonitor'.pending = 1
          /\ ~appMounted' => summaryPending' = 0
          /\ ~floodMonitor'.mounted => floodMonitor'.pending = 0
          /\ ~heatWaveMonitor'.mounted => heatWaveMonitor'.pending = 0]_vars

\* C14 witness: the flood monitor was mounted, fetched and was unmounted, and
\* its timer is gone; App has its mount fetch and a tick's fetch in flight;
\* the heat-wave monitor completed a fetch and a tick issued the next.
C14_Witness ==
    /\ ~floodMonitor.mounted
    /\ floodMonitor.lastResponse # NoResponse
    /\ floodMonitor.interval = 0
    /\ appMounted
    /\ interval = 60000
    /\ summaryPending = 2
    /\ heatWaveMonitor.mounted
    /\ heatWaveMonitor.lastResponse # NoResponse
    /\ heatWaveMonitor.pending = 1

(***************************************************************************)
(* Snapshots.                                                              *)
(***************************************************************************)
\* C15: a held list is the payload of the last fetch that completed
\* successfully, whole and nothing else (the empty list when the payload is
\* null or absent, and before the first such fetch), and stays so until the
\* next one completes: the Dashboard's three event lists and the
\* FloodMonitor's alerts and safe zones.
C15_SnapshotReplacedWholesale ==
    /\ mapFetch = "fulfilled" =>
          /\ seismicEvents = feed.seismic
          /\ floodAlerts = feed.flood
          /\ heatAlerts = feed.heat
    /\ mapFetch # "fulfilled" =>
          seismicEvents = <<>> /\ floodAlerts = <<>> /\ heatAlerts = <<>> /\ hospitals = <<>>
    /\ floodMonitor.lastResponse = NoResponse =>
          floodMonitor.alerts = <<>> /\ floodMonitor.safeZones = <<>>
    /\ floodMonitor.lastResponse # NoResponse =>
          /\ floodMonitor.alerts = OrEmpty(floodMonitor.lastResponse.alertsRes)
          /\ floodMonitor.safeZones = OrEmpty(floodMonitor.lastResponse.safeRes)

\* C15 witness: the Dashboard holds the one flood alert the backend serves
\* and has rendered; the FloodMonitor's last fetch brought one low alert and
\* no safe-zone payload, and a further fetch is in flight.
C15_Witness ==
    /\ Rendered
    /\ Len(floodAlerts) = 1
    /\ floodMonitor.lastResponse # NoResponse
    /\ Len(floodMonitor.alerts) = 1
    /\ floodMonitor.alerts[1].risk_level = "low"
    /\ "data" \notin DOMAIN floodMonitor.lastResponse.safeRes
    /\ floodMonitor.safeZones = <<>>
    /\ floodMonitor.pending = 1

(***************************************************************************)
(* Errors of the summary fetch.                                            *)
(***************************************************************************)
\* the Dashboard's error view with its Retry button (Dashboard.jsx:124, 139-154)
RetryShown == appMounted /\ ~loading /\ error # Null

\* C16: a failed summary fetch sets error and leaves the polling timer as it
\* is; while App is mounted with an error the Retry button is shown and the
\* timer is live, and Retry issues a fetch; a summary fetch that succeeds,
\* by retry or by poll, sets error to null: error is non-null exactly when
\* the summary fetch that completed last failed.
C16_FailedFetchRetryable ==
    /\ [](appMounted /\ error # Null => RetryShown /\ interval = 60000)
    /\ [][/\ FetchDashboardDataReject => error' # Null /\ interval' = interval
          /\ FetchDashboardDataResolve => error' = Null /\ interval' = interval
          /\ RetryShown /\ OnRefresh => summaryPending' = summaryPending + 1]_vars

\* C16 witness: after a summary fetch that succeeded another failed, and a
\* retry or a poll is in flight.
C16_Witness ==
    /\ RetryShown
    /\ dashboardData # NoSummary
    /\ summaryPending = 1
    /\ interval = 60000

(***************************************************************************)
(* Find Near Me without a position.                                        *)
(***************************************************************************)
\* a step that shows the toast of a declined or unsupported geolocation
GeolocationFailed ==
    /\ Len(hospitalLocator'.toasts) = Len(hospitalLocator.toasts) + 1
    /\ hospitalLocator'.toasts[Len(hospitalLocator'.toasts)]
          \in {ToastDenied, ToastUnsupported}

\* C17: when geolocation is unsupported or declined, findNearMe issues no
\* nearby-hospitals request and leaves userLocation and nearbyHospitals as
\* they were; nothing it sets keeps findNearMe from being invoked again.
C17_GeolocationFailureRecoverable ==
    [][GeolocationFailed =>
         /\ hospitalLocator'.nearbyPending = hospitalLocator.nearbyPending
         /\ hospitalLocator'.userLocation = hospitalLocator.userLocation
         /\ hospitalLocator'.nearbyHospitals = hospitalLocator.nearbyHospitals
         /\ hospitalLocator'.positionPending <= hospitalLocator.positionPending]_vars

\* C17 witness: findNearMe found geolocation unsupported, then was declined,
\* then was invoked again and succeeded: the nearby hospitals are shown.
C17_Witness ==
    /\ hospitalLocator.toasts = <<ToastUnsupported, ToastDenied, ToastFound>>
    /\ hospitalLocator.userLocation # NoLocation
    /\ hospitalLocator.nearbyHospitals # <<>>

(***************************************************************************)
(* The records the admin panel submits: a PUT carries the edited fields of *)
(* the stored hospital with its id, a POST the whole record.               *)
(***************************************************************************)
Stored(id) == CHOOSE h \in {hospitalDb[i] : i \in DOMAIN hospitalDb} : h.id = id

SubmittedRecords ==
    {adminPanel.updates[i].body @@ Stored(adminPanel.updates[i].id) :
        i \in DOMAIN adminPanel.updates}
    \cup {adminPanel.posts[i] : i \in DOMAIN adminPanel.posts}

IsCount(x) == "v" \in DOMAIN x /\ x.v >= 0

ValidBeds(r) ==
    /\ IsCount(r.total_beds) /\ IsCount(r.available_beds)
    /\ r.available_beds.v <= r.total_beds.v
    /\ IsCount(r.icu_beds) /\ IsCount(r.icu_available)
    /\ r.icu_available.v <= r.icu_beds.v

\* C18: every record in a request of saveChanges or addNewHospital has
\* 0 <= available_beds <= total_beds and 0 <= icu_available <= icu_beds,
\* whatever was typed before.
C18_SubmittedBedsInRange == \A r \in SubmittedRecords : ValidBeds(r)

\* an update carrying more available beds than the hospital has beds
C18_UpdateOverTotal ==
    \E i \in DOMAIN adminPanel.updates :
        /\ adminPanel.updates[i].body.available_beds = Num(3)
        /\ Stored(adminPanel.updates[i].id).total_beds = Num(2)

(***************************************************************************)
(* Saving an edit.                                                         *)
(***************************************************************************)
Last(seq) == seq[Len(seq)]

\* a click on save sends one request, for the edited hospital, with the
\* edit values of that moment
SaveSendsEditValues ==
    SaveChanges =>
        /\ Len(adminPanel'.updates) = Len(adminPanel.updates) + 1
        /\ Last(adminPanel'.updates).id = adminPanel.editingHospital
        /\ DOMAIN Last(adminPanel'.updates).body =
               {"available_beds", "icu_available", "emergency_capacity"}
        /\ \A f \in DOMAIN Last(adminPanel'.updates).body :
               Last(adminPanel'.updates).body[f] = Body(adminPanel.editValues)[f]

\* a fulfilled update ends the edit session and asks for the list again
SuccessEndsEditAndRefetches ==
    SaveChangesResolve =>
        /\ adminPanel'.editingHospital = 0
        /\ Len(adminPanel'.fetches) = Len(adminPanel.fetches) + 1
        /\ Last(adminPanel'.fetches) = hospitalDb'

\* an update was persisted that changed a hospital
UpdatePersisted == \E i \in DOMAIN AdminHospitals : hospitalDb[i] # AdminHospitals[i]

\* no request is in flight and the list was received the last time it was
\* asked for
Settled ==
    /\ adminPanel.fetches = <<>> /\ adminPanel.updates = <<>>
    /\ adminPanel.lastFetch = "fulfilled"

\* the saving steps of C19 alone
C19_SaveSteps == [][SaveSendsEditValues /\ SuccessEndsEditAndRefetches]_vars

\* C19: confirming an edit sends one update with the edit values of that
\* moment; its success ends the edit session and refetches the list, and
\* once every request is answered the table shows what is persisted.
C19_ChangesSavedImmediately ==
    /\ [][SaveSendsEditValues /\ SuccessEndsEditAndRefetches]_vars
    /\ [](UpdatePersisted /\ Settled => adminPanel.hospitals = hospitalDb)

\* every answer received, and the table shows the values before the update
C19_StaleTable ==
    /\ UpdatePersisted /\ Settled
    /\ adminPanel.hospitals = AdminHospitals

(***************************************************************************)
(* A failed update.                                                        *)
(***************************************************************************)
\* C20: when the update of saveChanges is rejected, editingHospital and
\* editValues stay as they are, no request for the list is issued, and
\* saving is false again.
C20_FailedUpdateRetryable ==
    [][SaveChangesReject =>
          /\ adminPanel'.editingHospital = adminPanel.editingHospital
          /\ adminPanel'.editValues = adminPanel.editValues
          /\ adminPanel'.fetches = adminPanel.fetches
          /\ ~adminPanel'.saving]_vars

\* the update failed and the row is still in edit mode with the typed value,
\* its save button enabled
C20_Witness ==
    /\ adminPanel.toast = "Failed to update hospital"
    /\ adminPanel.editingHospital = 1
    /\ adminPanel.editValues.available_beds = Num(3)
    /\ adminPanel.updates = <<>>
    /\ ~adminPanel.saving

(***************************************************************************)
(* The seismic monitor's answers.                                          *)
(***************************************************************************)
Selected == [min_magnitude |-> seismicMonitor.minMagnitude, days |-> seismicMonitor.days]

\* every request was fulfilled and none is in flight
AllAnswered ==
    /\ seismicMonitor.mounted
    /\ seismicMonitor.fetches = <<>>
    /\ seismicMonitor.toast = "none"

\* C21: once every request issued is answered, events is the answer to the
\* request for the minMagnitude and days now selected, whatever the order
\* the answers came in.
C21_LatestRequestWins == AllAnswered => seismicMonitor.events = EventsFor(Selected)

\* "4.0" is selected and the list shown is the one for "2.5"
C21_StaleEvents ==
    /\ AllAnswered
    /\ seismicMonitor.minMagnitude = "4.0" /\ seismicMonitor.days = "7"
    /\ seismicMonitor.events =
           EventsFor([min_magnitude |-> "2.5", days |-> "7"])

(***************************************************************************)
(* An update completing while another hospital is edited.                  *)
(***************************************************************************)
\* the update in flight is for a hospital other than the one in edit mode
OtherRowEdited ==
    /\ adminPanel.updates # <<>>
    /\ adminPanel.editingHospital # 0
    /\ \A i \in DOMAIN adminPanel.updates :
          adminPanel.updates[i].id # adminPanel.editingHospital

\* C22: when the update for hospital A is fulfilled while hospital B is in
\* edit mode, editingHospital stays B and editValues stay B's.
C22_SaveEndsOnlyItsOwnSession ==
    [][OtherRowEdited /\ SaveChangesResolve =>
          /\ adminPanel'.editingHospital = adminPanel.editingHospital
          /\ adminPanel'.editValues = adminPanel.editValues]_vars

(***************************************************************************)
(* A round of fetchMapData in which a request failed.                      *)
(***************************************************************************)
\* C23: after a round of fetchMapData in which any request failed, the four
\* lists are what they were before it (the empty lists of the mount) and the
\* feed is empty; after every round, failed or not, mapLoading is false.
C23_FetchMapDataAllOrNothing ==
    /\ mapFetch = "rejected" =>
          /\ seismicEvents = <<>> /\ floodAlerts = <<>>
          /\ heatAlerts = <<>> /\ hospitals = <<>>
          /\ allAlerts = <<>>
    /\ mapFetch \in {"fulfilled", "rejected"} => ~mapLoading

\* the round failed while the server had urgent alerts to give
C23_Witness ==
    /\ mapFetch = "rejected"
    /\ \E i \in DOMAIN feed.heat : IsUrgent(feed.heat[i])
    /\ ~mapLoading

(***************************************************************************)
(* The prediction requests of the monitors.                                *)
(***************************************************************************)
OnePrediction(monitor) ==
    monitor.mounted =>
        /\ monitor.predicting <= 1
        /\ monitor.generatingPrediction <=> monitor.predicting = 1

\* C24: in each monitor at most one prediction request is in flight, and
\* generatingPrediction is true exactly while one is: the trigger cannot
\* start a second one, and success and failure both set it to false.
C24_OnePredictionInFlight == OnePrediction(floodMonitor) /\ OnePrediction(heatWaveMonitor)

\* a flood prediction is in flight, a heat prediction has succeeded
C24_Witness ==
    /\ floodMonitor.mounted /\ floodMonitor.generatingPrediction
    /\ floodMonitor.predicting = 1
    /\ heatWaveMonitor.mounted /\ ~heatWaveMonitor.generatingPrediction
    /\ heatWaveMonitor.prediction = [disaster_type |-> "heatwave"]

(***************************************************************************)
(* The summary the App holds.                                              *)
(***************************************************************************)
\* a summary request completes and the error message is set
FailedFetchStep ==
    /\ summaryPending' = summaryPending - 1
    /\ error' = "Failed to fetch dashboard data"

\* a summary request completes, the error is cleared and the summary is the
\* payload of the answer
SuccessfulFetchStep ==
    /\ summaryPending' = summaryPending - 1
    /\ error' = Null
    /\ dashboardData' = Summary(feed)

\* C25: a failed summary fetch leaves dashboardData as it was, the last
\* summary fetched or null, and dashboardData only ever changes to the
\* payload of a successful fetch.
C25_SummaryRetainedOnFailure ==
    [][/\ FailedFetchStep => dashboardData' = dashboardData
       /\ dashboardData' # dashboardData => SuccessfulFetchStep]_vars

\* after a failure the App still holds a summary, one the server has since
\* moved on from
C25_Witness ==
    /\ error = "Failed to fetch dashboard data"
    /\ dashboardData # NoSummary
    /\ dashboardData # Summary(feed)

(***************************************************************************)
(* The App's loading flag.                                                 *)
(***************************************************************************)
\* no summary request has completed: none stored a summary, none an error,
\* and a fulfilled one that followed a failure would have stored a summary
NoneCompleted == dashboardData = NoSummary /\ error = Null

\* C26: loading is true from the start until the first summary fetch
\* completes, fulfilled or rejected, and false from then on: no poll and no
\* retry sets it again.
C26_LoadingOnlyUntilFirstFetch ==
    /\ [](loading <=> NoneCompleted)
    /\ [][~loading => ~loading']_vars

\* a retry is in flight after a failure and the loading view is not shown
C26_Witness ==
    /\ ~loading
    /\ summaryPending > 0
    /\ error = "Failed to fetch dashboard data"

(***************************************************************************)
(* The list the hospital locator shows.                                    *)
(***************************************************************************)
\* a nearby search was answered at this step
NearbyAnswered ==
    /\ Len(hospitalLocator'.toasts) = Len(hospitalLocator.toasts) + 1
    /\ hospitalLocator'.toasts[Len(hospitalLocator'.toasts)] = ToastFound

\* C27: while nearbyHospitals is non-empty the list shown is nearbyHospitals;
\* only the answer to a nearby search changes nearbyHospitals, so with a
\* non-empty nearbyHospitals no change of searchTerm or regionFilter and no
\* refresh changes the list shown.
C27_NearbyListShown ==
    /\ [](hospitalLocator.nearbyHospitals # <<>> =>
             Displayed(hospitalLocator) = hospitalLocator.nearbyHospitals)
    /\ [][hospitalLocator'.nearbyHospitals # hospitalLocator.nearbyHospitals
             => NearbyAnswered]_vars
    /\ [][hospitalLocator.nearbyHospitals # <<>> /\ ~NearbyAnswered =>
             Displayed(hospitalLocator') = Displayed(hospitalLocator)]_vars

\* the nearby hospitals are shown although the filter selects none of them
C27_Witness ==
    /\ hospitalLocator.nearbyHospitals # <<>>
    /\ hospitalLocator.hospitals # <<>>
    /\ hospitalLocator.searchTerm # <<>>
    /\ hospitalLocator.regionFilter # "all"
    /\ FilteredHospitals(hospitalLocator) = <<>>
    /\ Displayed(hospitalLocator) = hospitalLocator.nearbyHospitals

(***************************************************************************)
(* filteredHospitals.                                                      *)
(***************************************************************************)
SameLetter(a, b) == a = b \/ {a, b} \in {{"A", "a"}, {"B", "b"}}

\* str contains term, letter case apart
Contains(str, term) ==
    \E k \in 0..(Len(str) - Len(term)) :
        \A j \in 1..Len(term) : SameLetter(str[k + j], term[j])

Qualifies(h) ==
    /\ Contains(h.name, hospitalLocator.searchTerm)
          \/ Contains(h.city, hospitalLocator.searchTerm)
    /\ hospitalLocator.regionFilter = "all" \/ h.region = hospitalLocator.regionFilter

Qualifying ==
    {i \in DOMAIN hospitalLocator.hospitals : Qualifies(hospitalLocator.hospitals[i])}

\* C28: filteredHospitals holds exactly the hospitals whose name or city
\* contains searchTerm, letter case apart, and whose region is regionFilter
\* unless that is "all", in the order of hospitals; it is hospitals when
\* searchTerm is empty and regionFilter is "all".
C28_FilteredIsQualifyingSubsequence ==
    LET filtered == FilteredHospitals(hospitalLocator)
    IN  /\ Len(filtered) = Cardinality(Qualifying)
        /\ \E pos \in [1..Len(filtered) -> Qualifying] :
              /\ \A a, b \in 1..Len(filtered) : a < b => pos[a] < pos[b]
              /\ \A a \in 1..Len(filtered) :
                    filtered[a] = hospitalLocator.hospitals[pos[a]]
        /\ hospitalLocator.searchTerm = <<>> /\ hospitalLocator.regionFilter = "all"
              => filtered = hospitalLocator.hospitals

\* of two hospitals the filter keeps the second alone, the one of the region
\* selected, which has the term only in another letter case
C28_Witness ==
    /\ Len(hospitalLocator.hospitals) = 2
    /\ hospitalLocator.searchTerm = <<"B">>
    /\ hospitalLocator.regionFilter = "Lazio"
    /\ FilteredHospitals(hospitalLocator) = <<hospitalLocator.hospitals[2]>>
    /\ hospitalLocator.hospitals[2].name = <<"A", "b">>
    /\ hospitalLocator.hospitals[2].city = <<"b", "a">>
    /\ hospitalLocator.hospitals[1].region = "Sicilia"

(***************************************************************************)
(* activeAlerts.                                                           *)
(***************************************************************************)
ActiveAt(list) == {i \in DOMAIN list : IsUrgent(list[i])}

\* the n-th index of a set of indices, in ascending order
NthOf(indices, n) == CHOOSE i \in indices : Cardinality({j \in indices : j <= i}) = n

\* the list is the qualifying heat alerts in their order, then the
\* qualifying flood alerts in theirs, cut after ActiveLimit entries
HeatThenFlood(list, heat, flood) ==
    LET nHeat == Cardinality(ActiveAt(heat))
        nFlood == Cardinality(ActiveAt(flood))
    IN  /\ Len(list) = Min(ActiveLimit, nHeat + nFlood)
        /\ \A p \in DOMAIN list :
              IF p <= nHeat
                THEN list[p] = HeatEntry(heat[NthOf(ActiveAt(heat), p)])
                ELSE list[p] = FloodEntry(flood[NthOf(ActiveAt(flood), p - nHeat)])

\* C29: activeAlerts has at most 4 entries, all of heat or flood alerts that
\* are high or critical and none of a seismic event: the qualifying heat
\* alerts in input order, then the qualifying flood alerts in input order,
\* cut after the first 4 and not sorted.
C29_ActiveAlertsHeatThenFloodFirstFour ==
    /\ [](/\ Len(activeAlerts) <= 4
          /\ \A p \in DOMAIN activeAlerts : activeAlerts[p].type \in {"heat", "flood"})
    /\ [][activeAlerts' # activeAlerts =>
             HeatThenFlood(activeAlerts', heatAlerts, floodAlerts)]_vars

\* five alerts qualify and four are listed: a high heat alert after a
\* critical one, a flood alert last, with a critical seismic event fetched
C29_Witness ==
    /\ Cardinality(ActiveAt(heatAlerts)) + Cardinality(ActiveAt(floodAlerts)) = 5
    /\ Len(activeAlerts) = 4
    /\ activeAlerts[1].detail = <<43, 12>>
    /\ activeAlerts[2].detail = <<41, 6>>
    /\ activeAlerts[4].type = "flood"
    /\ seismicEvents # <<>>

=============================================================================
